---- MODULE Spec2Model ----
(***************************************************************************)
(* METAR-RasPi: the METAR decoder of mlogic.py (parseMETAR and its field   *)
(* extractors), the flight-rules classifier (getCeiling, getFlightRules),  *)
(* the weather-code translator (translateWX), the station codec of         *)
(* common.py and the station selection of the touchscreen (METARScreen)    *)
(* and of the LCD plate (METARPlate).  Python strings are TLA+ strings,    *)
(* Python lists are sequences; a Python exception is the field exc of an   *)
(* operator's result.                                                      *)
(***************************************************************************)
EXTENDS Integers, Sequences, FiniteSets, TLC

\* ------------------------------------------------------------------------
\* Python string and list primitives
\* ------------------------------------------------------------------------

Digits == {"0", "1", "2", "3", "4", "5", "6", "7", "8", "9"}

DigitVal == ("0" :> 0) @@ ("1" :> 1) @@ ("2" :> 2) @@ ("3" :> 3) @@ ("4" :> 4) @@
            ("5" :> 5) @@ ("6" :> 6) @@ ("7" :> 7) @@ ("8" :> 8) @@ ("9" :> 9)

DigitChr == <<"0", "1", "2", "3", "4", "5", "6", "7", "8", "9">>

\* s[i] for 0 <= i < len(s)
Ch(s, i) == SubSeq(s, i + 1, i + 1)

\* a slice bound as Python normalises it against a length n
Norm(i, n) == IF i < 0 THEN (IF i + n < 0 THEN 0 ELSE i + n)
              ELSE IF i > n THEN n ELSE i

\* s[a:b]
Slice(s, a, b) ==
    LET lo == Norm(a, Len(s))
        hi == Norm(b, Len(s))
    IN  IF lo >= hi THEN "" ELSE SubSeq(s, lo + 1, hi)

\* s[a:]
SliceFrom(s, a) == Slice(s, a, Len(s))

\* s[:b]
SliceTo(s, b) == Slice(s, 0, b)

\* s.find(sub): the least index where sub occurs, or -1
Find(s, sub) ==
    LET hits == {i \in 0..(Len(s) - Len(sub)) : SubSeq(s, i + 1, i + Len(sub)) = sub}
    IN  IF hits = {} THEN -1 ELSE CHOOSE i \in hits : \A j \in hits : i <= j

\* s.isdigit()
IsDigit(s) == Len(s) > 0 /\ \A i \in 1..Len(s) : SubSeq(s, i, i) \in Digits

\* s.strip() for the whitespace of a one-line report
RECURSIVE LStrip(_)
LStrip(s) == IF Len(s) > 0 /\ Ch(s, 0) = " " THEN LStrip(SliceFrom(s, 1)) ELSE s

RECURSIVE RStrip(_)
RStrip(s) == IF Len(s) > 0 /\ Ch(s, Len(s) - 1) = " "
             THEN RStrip(SliceTo(s, Len(s) - 1)) ELSE s

Strip(s) == RStrip(LStrip(s))

\* s.split(sep)
RECURSIVE Split(_, _)
Split(s, sep) ==
    LET k == Find(s, sep)
    IN  IF k = -1 THEN <<s>>
        ELSE <<SliceTo(s, k)>> \o Split(SliceFrom(s, k + Len(sep)), sep)

\* s.replace(old, new) for a one-character old
RECURSIVE Replace(_, _, _)
Replace(s, old, new) ==
    IF Len(s) = 0 THEN ""
    ELSE (IF Ch(s, 0) = old THEN new ELSE Ch(s, 0)) \o Replace(SliceFrom(s, 1), old, new)

\* int(s) is defined (else ValueError): an optional sign and decimal digits
\* (a token holds no whitespace; digit-group underscores are not modelled)
IntOK(s) == \/ IsDigit(s)
            \/ Len(s) > 1 /\ Ch(s, 0) \in {"+", "-"} /\ IsDigit(SliceFrom(s, 1))

RECURSIVE DigitsVal(_)
DigitsVal(s) == IF Len(s) = 0 THEN 0
                ELSE 10 * DigitsVal(SliceTo(s, Len(s) - 1)) + DigitVal[Ch(s, Len(s) - 1)]

\* int(s), where IntOK(s)
ToInt(s) == IF Ch(s, 0) = "-" THEN 0 - DigitsVal(SliceFrom(s, 1))
            ELSE IF Ch(s, 0) = "+" THEN DigitsVal(SliceFrom(s, 1))
            ELSE DigitsVal(s)

RECURSIVE NatToStr(_)
NatToStr(n) == IF n < 10 THEN DigitChr[n + 1]
               ELSE NatToStr(n \div 10) \o DigitChr[(n % 10) + 1]

\* str(n)
IntToStr(n) == IF n < 0 THEN "-" \o NatToStr(0 - n) ELSE NatToStr(n)

\* list.pop(i) leaves the list without its element i (0-based, 0 <= i < len)
RemoveAt(l, i) == SubSeq(l, 1, i) \o SubSeq(l, i + 2, Len(l))

\* list.reverse()
Reverse(l) == [i \in 1..Len(l) |-> l[Len(l) + 1 - i]]

\* x in l
InList(x, l) == \E i \in 1..Len(l) : l[i] = x


\* ------------------------------------------------------------------------
\* mlogic.py: tables
\* ------------------------------------------------------------------------

cloudList == <<"FEW", "SCT", "BKN", "OVC">>

RegionsUsingUSParser == <<"C", "K", "M", "P", "T">>

RegionsUsingInternationalParser ==
    <<"A", "B", "D", "E", "F", "G", "H", "L", "M", "N", "O", "R", "S", "U", "V", "W", "Y", "Z">>

MStationsUsingUSParser == <<"MB", "MD", "MK", "MM", "MT", "MU", "MW", "MY">>

MStationsUsingInternationalParser == <<"MG", "MH", "MN", "MP", "MR", "MS", "MZ">>

\* the tokens __sanitize drops
NoiseTokens == <<"AUTO", "COR", "NSC", "CLR", "SKC", "NCD", "$", "KT", "M">>

\* ------------------------------------------------------------------------
\* mlogic.py: remarks splitter and sanitizer
\* ------------------------------------------------------------------------

\* the split of __getRemarks at a marker found in t: (body tokens, remarks)
SplitAt(t, marker, skip) ==
    [wxData  |-> Split(Strip(SliceTo(t, Find(t, marker) - 1)), " "),
     remarks |-> SliceFrom(t, Find(t, marker) + skip)]

\* getRemarks without the TEMP and NOSIG branches of lines 67-68
getRemarksThreeMarkers(txt) ==
    LET t == Replace(txt, "?", " ")
    IN  IF Find(t, "BECMG") # -1 THEN SplitAt(t, "BECMG", 0)
        ELSE IF Find(t, "TEMPO") # -1 THEN SplitAt(t, "TEMPO", 0)
        ELSE IF Find(t, "RMK") # -1 THEN SplitAt(t, "RMK", 4)
        ELSE [wxData |-> Split(Strip(t), " "), remarks |-> ""]

getRemarks(txt) ==
    LET t == Replace(txt, "?", " ")
    IN  IF Find(t, "BECMG") # -1 THEN SplitAt(t, "BECMG", 0)
        ELSE IF Find(t, "TEMPO") # -1 THEN SplitAt(t, "TEMPO", 0)
        ELSE IF Find(t, "TEMP") # -1 THEN SplitAt(t, "TEMP", 0)
        ELSE IF Find(t, "NOSIG") # -1 THEN SplitAt(t, "NOSIG", 0)
        ELSE IF Find(t, "RMK") # -1 THEN SplitAt(t, "RMK", 4)
        ELSE [wxData |-> Split(Strip(t), " "), remarks |-> ""]

\* wxData[i-1] as Python reads it: index -1 is the last element
PrevIndex(wx, i) == IF i = 0 THEN Len(wx) ELSE i

\* line 83: a runway visual range token
IsRunwayVis(s) ==
    /\ Len(s) > 4
    /\ Ch(s, 0) = "R"
    /\ (Ch(s, 3) = "/" \/ Ch(s, 4) = "/")
    /\ IsDigit(Slice(s, 1, 3))

\* IsRecentWx for four-character tokens only
IsRecentWxShort(s) == Len(s) = 4 /\ SliceTo(s, 2) = "RE"

\* line 85: a recent-weather token
IsRecentWx(s) == Len(s) \in {4, 6} /\ SliceTo(s, 2) = "RE"

\* line 88: `and` binds tighter than `or`, so only the SM test is guarded by i != 0
IsSplitPair(wx, i) ==
    LET s    == wx[i + 1]
        prev == wx[PrevIndex(wx, i)]
    IN  \/ (i # 0 /\ s = "SM" /\ IsDigit(prev))
        \/ (s = "KT" /\ IsDigit(SliceTo(prev, 5)))
        \/ (IsDigit(s) /\ InList(prev, cloudList))

\* line 89: wxData[i-1] += wxData.pop(i); the target index is fixed before the pop
MergePair(wx, i) ==
    LET s      == wx[i + 1]
        merged == wx[PrevIndex(wx, i)] \o s
        popped == RemoveAt(wx, i)
    IN  IF i = 0 THEN [popped EXCEPT ![Len(popped)] = merged]
        ELSE [popped EXCEPT ![i] = merged]

\* the loop of __sanitize from index i down to 0
RECURSIVE SanitizeFrom(_, _, _)
SanitizeFrom(wx, rv, i) ==
    IF i < 0 THEN [wxData |-> wx, runwayVisibility |-> rv, exc |-> ""]
    ELSE LET s == wx[i + 1]
         IN  IF IsRunwayVis(s) THEN SanitizeFrom(RemoveAt(wx, i), s, i - 1)
             ELSE IF IsRecentWx(s) THEN SanitizeFrom(RemoveAt(wx, i), rv, i - 1)
             ELSE IF IsSplitPair(wx, i)
                  THEN IF i = 0 /\ Len(wx) = 1
                       THEN [wxData |-> <<>>, runwayVisibility |-> rv, exc |-> "IndexError"]
                       ELSE SanitizeFrom(MergePair(wx, i), rv, i - 1)
             ELSE IF InList(s, NoiseTokens) THEN SanitizeFrom(RemoveAt(wx, i), rv, i - 1)
             ELSE SanitizeFrom(wx, rv, i - 1)

sanitize(wxData) == SanitizeFrom(wxData, "", Len(wxData) - 1)

\* ------------------------------------------------------------------------
\* mlogic.py: field extractors.  Each returns the remaining tokens, its
\* field(s) and exc, the exception it raises ("" when it returns).
\* ------------------------------------------------------------------------

Last(wx) == wx[Len(wx)]

Front(wx) == SubSeq(wx, 1, Len(wx) - 1)

getAltimeterUS(wxData) ==
    IF wxData # <<>> /\ Last(wxData) = ""
    THEN [wxData |-> wxData, altimeter |-> "", exc |-> "IndexError"]
    ELSE IF wxData # <<>> /\ Ch(Last(wxData), 0) = "A"
    THEN [wxData |-> Front(wxData), altimeter |-> SliceFrom(Last(wxData), 1), exc |-> ""]
    ELSE IF wxData # <<>> /\ Len(Last(wxData)) = 4 /\ IsDigit(Last(wxData))
    THEN [wxData |-> Front(wxData), altimeter |-> Last(wxData), exc |-> ""]
    ELSE [wxData |-> wxData, altimeter |-> "", exc |-> ""]

getAltimeterInternational(wxData) ==
    IF wxData # <<>> /\ Last(wxData) = ""
    THEN [wxData |-> wxData, altimeter |-> "", exc |-> "IndexError"]
    ELSE IF wxData # <<>> /\ Ch(Last(wxData), 0) = "Q"
    THEN [wxData |-> Front(wxData), altimeter |-> SliceFrom(Last(wxData), 1), exc |-> ""]
    ELSE [wxData |-> wxData, altimeter |-> "", exc |-> ""]

\* a variant of getTempAndDewpoint that returns the two halves in the wrong order
getTempAndDewpointSwapped(wxData) ==
    IF wxData # <<>> /\ Find(Last(wxData), "/") # -1
    THEN LET TD == Split(Last(wxData), "/")
         IN  [wxData |-> Front(wxData), temperature |-> TD[2], dewpoint |-> TD[1], exc |-> ""]
    ELSE [wxData |-> wxData, temperature |-> "", dewpoint |-> "", exc |-> ""]

getTempAndDewpoint(wxData) ==
    IF wxData # <<>> /\ Find(Last(wxData), "/") # -1
    THEN LET TD == Split(Last(wxData), "/")
         IN  [wxData |-> Front(wxData), temperature |-> TD[1], dewpoint |-> TD[2], exc |-> ""]
    ELSE [wxData |-> wxData, temperature |-> "", dewpoint |-> "", exc |-> ""]

\* IsTime without the test of the six digits
IsTimeAnyHead(s) == Len(s) = 7 /\ Ch(s, 6) = "Z"

\* line 116: the shape of a time group
IsTime(s) == Len(s) = 7 /\ Ch(s, 6) = "Z" /\ IsDigit(SliceTo(s, 6))

getStationAndTime(wxData) ==
    IF wxData = <<>>
    THEN [wxData |-> wxData, station |-> "", time |-> "", exc |-> "IndexError"]
    ELSE LET rest == Tail(wxData)
         IN  IF rest # <<>> /\ IsTime(rest[1])
             THEN [wxData |-> Tail(rest), station |-> wxData[1], time |-> rest[1], exc |-> ""]
             ELSE [wxData |-> rest, station |-> wxData[1], time |-> "", exc |-> ""]

\* line 125: the head token is a knots wind group
IsWindKT(h) ==
    \/ SliceFrom(h, Len(h) - 2) = "KT"
    \/ SliceFrom(h, Len(h) - 3) = "KTS"
    \/ (Len(h) = 5 /\ IsDigit(h))
    \/ (Len(h) >= 8 /\ Find(h, "G") # -1 /\ Find(h, "/") = -1 /\ Find(h, "MPS") = -1)

\* line 139: the head token is a slash-form wind group
IsWindSlash(h) ==
    Len(h) > 5 /\ Ch(h, 3) = "/" /\ IsDigit(SliceTo(h, 3)) /\ IsDigit(Slice(h, 3, 5))

\* lines 126-131 and 133-138: direction, speed and gust of a token ending in unit
WindWithUnit(h, unit) ==
    [direction |-> SliceTo(h, 3),
     speed     |-> IF Find(h, "G") # -1 THEN Slice(h, 3, Find(h, "G"))
                   ELSE Slice(h, 3, Find(h, unit)),
     gust      |-> IF Find(h, "G") # -1 THEN Slice(h, Find(h, "G") + 1, Find(h, unit))
                   ELSE ""]

\* lines 140-147
WindSlash(h) ==
    [direction |-> SliceTo(h, 3),
     speed     |-> IF Find(h, "G") # -1 THEN Slice(h, 4, Find(h, "G")) ELSE SliceFrom(h, 4),
     gust      |-> IF Find(h, "G") # -1 THEN Slice(h, Find(h, "G") + 1, Find(h, "G") + 3)
                   ELSE ""]

\* lines 125-147: the main wind token
WindMain(wxData) ==
    IF wxData # <<>> /\ IsWindKT(wxData[1])
    THEN [wxData |-> Tail(wxData), wind |-> WindWithUnit(wxData[1], "KT")]
    ELSE IF wxData # <<>> /\ SliceFrom(wxData[1], Len(wxData[1]) - 3) = "MPS"
    THEN [wxData |-> Tail(wxData), wind |-> WindWithUnit(wxData[1], "MPS")]
    ELSE IF wxData # <<>> /\ IsWindSlash(wxData[1])
    THEN [wxData |-> Tail(wxData), wind |-> WindSlash(wxData[1])]
    ELSE [wxData |-> wxData, wind |-> [direction |-> "", speed |-> "", gust |-> ""]]

\* line 149: a detached gust token
IsGust(h) == 1 < Len(h) /\ Len(h) < 4 /\ Ch(h, 0) = "G" /\ IsDigit(SliceFrom(h, 1))

\* line 152: a variable wind direction token
IsVariable(h) ==
    Len(h) = 7 /\ IsDigit(SliceTo(h, 3)) /\ Ch(h, 3) = "V" /\ IsDigit(SliceFrom(h, 4))

getWindInfo(wxData) ==
    LET m  == WindMain(wxData)
        g  == IF m.wxData # <<>> /\ IsGust(m.wxData[1])
              THEN [wxData |-> Tail(m.wxData), gust |-> SliceFrom(m.wxData[1], 1)]
              ELSE [wxData |-> m.wxData, gust |-> m.wind.gust]
        v  == IF g.wxData # <<>> /\ IsVariable(g.wxData[1])
              THEN [wxData |-> Tail(g.wxData), variable |-> Split(g.wxData[1], "V")]
              ELSE [wxData |-> g.wxData, variable |-> <<>>]
    IN  [wxData |-> v.wxData, direction |-> m.wind.direction, speed |-> m.wind.speed,
         gust |-> g.gust, variable |-> v.variable, exc |-> ""]

\* line 170: the two-token form, vis1 the whole number and vis2 the fraction
VisTwoTokens(wxData) ==
    LET vis1 == wxData[1]
        vis2 == SliceTo(wxData[2], Find(wxData[2], "SM"))
        rest == Tail(Tail(wxData))
    IN  IF Len(vis2) < 3 THEN [wxData |-> rest, visibility |-> "", exc |-> "IndexError"]
        ELSE IF ~IsDigit(Ch(vis2, 2)) \/ ~IsDigit(Ch(vis2, 0))
        THEN [wxData |-> rest, visibility |-> "", exc |-> "ValueError"]
        ELSE [wxData |-> rest,
              visibility |-> IntToStr(ToInt(vis1) * ToInt(Ch(vis2, 2)) + ToInt(Ch(vis2, 0)))
                             \o SliceFrom(vis2, 1),
              exc |-> ""]

getVisibilityUS(wxData) ==
    IF wxData # <<>> /\ Find(wxData[1], "SM") # -1
    THEN LET v == SliceTo(wxData[1], Find(wxData[1], "SM"))
         IN  IF Find(wxData[1], "/") = -1
             THEN IF IntOK(v)
                  THEN [wxData |-> Tail(wxData), visibility |-> IntToStr(ToInt(v)), exc |-> ""]
                  ELSE [wxData |-> wxData, visibility |-> "", exc |-> "ValueError"]
             ELSE [wxData |-> Tail(wxData), visibility |-> v, exc |-> ""]
    ELSE IF wxData # <<>> /\ wxData[1] = "9999"
    THEN [wxData |-> Tail(wxData), visibility |-> "10", exc |-> ""]
    ELSE IF Len(wxData) > 1 /\ Find(wxData[2], "SM") # -1 /\ IsDigit(wxData[1])
    THEN VisTwoTokens(wxData)
    ELSE [wxData |-> wxData, visibility |-> "", exc |-> ""]

getVisibilityInternational(wxData) ==
    IF wxData # <<>> /\ Len(wxData[1]) = 4 /\ IsDigit(wxData[1])
    THEN [wxData |-> Tail(wxData), visibility |-> wxData[1], exc |-> ""]
    ELSE [wxData |-> wxData, visibility |-> "", exc |-> ""]

\* line 183 compares cloud[3] with '0' and assigns nothing: an "O" stays
sanitizeCloud(cloud) ==
    IF Len(cloud) < 4 THEN cloud
    ELSE IF ~IsDigit(Ch(cloud, 3)) /\ Ch(cloud, 3) # "/"
    THEN IF Ch(cloud, 3) = "O" THEN cloud
         ELSE SliceTo(cloud, 3) \o SliceFrom(cloud, 4) \o Ch(cloud, 3)
    ELSE cloud

\* lines 196-199: the 3-character pieces of cloud
RECURSIVE Chunks(_)
Chunks(cloud) ==
    IF Len(cloud) >= 3 THEN <<SliceTo(cloud, 3)>> \o Chunks(SliceFrom(cloud, 3))
    ELSE IF Len(cloud) > 0 THEN <<cloud>>
    ELSE <<>>

splitCloud(cloud, beginsWithVV) ==
    LET c == sanitizeCloud(cloud)
    IN  IF beginsWithVV THEN <<SliceTo(c, 2)>> \o Chunks(SliceFrom(c, 2))
        ELSE Chunks(c)

\* the loop of __getClouds from index i down to 0
RECURSIVE CloudsFrom(_, _, _)
CloudsFrom(wx, clouds, i) ==
    IF i < 0 THEN [wxData |-> wx, clouds |-> clouds]
    ELSE IF InList(SliceTo(wx[i + 1], 3), cloudList)
    THEN CloudsFrom(RemoveAt(wx, i), Append(clouds, splitCloud(wx[i + 1], FALSE)), i - 1)
    ELSE IF SliceTo(wx[i + 1], 2) = "VV"
    THEN CloudsFrom(RemoveAt(wx, i), Append(clouds, splitCloud(wx[i + 1], TRUE)), i - 1)
    ELSE CloudsFrom(wx, clouds, i - 1)

getClouds(wxData) ==
    LET r == CloudsFrom(wxData, <<>>, Len(wxData) - 1)
    IN  [wxData |-> r.wxData, clouds |-> Reverse(r.clouds), exc |-> ""]

\* ------------------------------------------------------------------------
\* mlogic.py: flight rules
\* ------------------------------------------------------------------------

\* the cloud types getCeiling counts as a ceiling
CeilingTypes == <<"OVC", "BKN", "VV">>

\* line 280
IsCeiling(cloud) == Len(cloud) > 1 /\ IsDigit(cloud[2]) /\ InList(cloud[1], CeilingTypes)

\* getCeiling: the first qualifying layer; None is the empty sequence
getCeiling(clouds) ==
    LET hits == {i \in 1..Len(clouds) : IsCeiling(clouds[i])}
    IN  IF hits = {} THEN <<>>
        ELSE clouds[CHOOSE i \in hits : \A j \in hits : i <= j]

\* lines 258-262: the exception the visibility conversion raises, if any
VisExc(vis) ==
    IF Find(vis, "/") # -1
    THEN IF Ch(vis, 0) = "M" THEN ""
         ELSE LET parts == Split(vis, "/")
              IN  IF ~IntOK(parts[1]) \/ ~IntOK(parts[2]) THEN "ValueError"
                  ELSE IF ToInt(parts[2]) = 0 THEN "ZeroDivisionError"
                  ELSE ""
    ELSE IF Len(vis) = 4 /\ IsDigit(vis) THEN ""
    ELSE IF IntOK(vis) THEN ""
    ELSE "ValueError"

\* line 261: m * 0.000621371 in whole millionths of a mile (621371 = 621 * 1000 + 371)
MicroMiles(m) == m * 621 + ((m * 371) \div 1000)

\* m * 0.000621371 < k, for metres m and a whole number of miles k
MetresBelow(m, k) == MicroMiles(m) < k * 1000000

\* n / d < k; the floor of n / d (Python 2) is below a whole k exactly when n / d is
RatioBelow(n, d, k) == IF d > 0 THEN n < k * d ELSE n > k * d

\* lines 258-262: the converted visibility is below k statute miles
VisBelow(vis, k) ==
    IF Find(vis, "/") # -1
    THEN IF Ch(vis, 0) = "M" THEN 0 < k
         ELSE RatioBelow(ToInt(Split(vis, "/")[1]), ToInt(Split(vis, "/")[2]), k)
    ELSE IF Len(vis) = 4 /\ IsDigit(vis) THEN MetresBelow(ToInt(vis), k)
    ELSE ToInt(vis) < k

\* lines 264-265: the exception the ceiling conversion raises, if any
CldExc(ceiling) ==
    IF ceiling = <<>> THEN ""
    ELSE IF Len(ceiling) < 2 THEN "IndexError"
    ELSE IF ~IntOK(ceiling[2]) THEN "ValueError"
    ELSE ""

\* lines 264-265
CldValue(ceiling) == IF ceiling = <<>> THEN 99 ELSE ToInt(ceiling[2])

\* a variant of Rules whose ceiling comparisons are not strict
RulesNonStrict(vis, cld) ==
    IF VisBelow(vis, 5) \/ cld <= 30
    THEN IF VisBelow(vis, 3) \/ cld <= 10
         THEN IF VisBelow(vis, 1) \/ cld <= 5 THEN 3 ELSE 2
         ELSE 1
    ELSE 0

\* lines 267-273: 0=VFR, 1=MVFR, 2=IFR, 3=LIFR
Rules(vis, cld) ==
    IF VisBelow(vis, 5) \/ cld < 30
    THEN IF VisBelow(vis, 3) \/ cld < 10
         THEN IF VisBelow(vis, 1) \/ cld < 5 THEN 3 ELSE 2
         ELSE 1
    ELSE 0

\* a variant of getFlightRules that lets the ceiling decide when vis is empty
getFlightRulesCeilingDecides(vis, ceiling) ==
    IF vis = ""
    THEN IF CldExc(ceiling) # "" THEN [rules |-> -1, exc |-> CldExc(ceiling)]
         ELSE [rules |-> IF CldValue(ceiling) < 5 THEN 3
                         ELSE IF CldValue(ceiling) < 10 THEN 2
                         ELSE IF CldValue(ceiling) < 30 THEN 1 ELSE 0,
               exc |-> ""]
    ELSE IF VisExc(vis) # "" THEN [rules |-> -1, exc |-> VisExc(vis)]
    ELSE IF CldExc(ceiling) # "" THEN [rules |-> -1, exc |-> CldExc(ceiling)]
    ELSE [rules |-> Rules(vis, CldValue(ceiling)), exc |-> ""]

\* getFlightRules(vis, splitCloud): rules is the value returned when exc = ""
getFlightRules(vis, ceiling) ==
    IF vis = "" THEN [rules |-> 2, exc |-> ""]
    ELSE IF VisExc(vis) # "" THEN [rules |-> -1, exc |-> VisExc(vis)]
    ELSE IF CldExc(ceiling) # "" THEN [rules |-> -1, exc |-> CldExc(ceiling)]
    ELSE [rules |-> Rules(vis, CldValue(ceiling)), exc |-> ""]

\* ------------------------------------------------------------------------
\* mscreen.py: the value displayMETAR shows for a temperature or dewpoint
\* ------------------------------------------------------------------------

\* lines 213-214 and 218-219, for a field that is not empty and has no "/"
\* first; int() raises ValueError on what is no signed decimal number, and
\* there is no value then
displayValue(s) ==
    LET body == IF Ch(s, 0) = "M" THEN SliceFrom(s, 1) ELSE s
    IN  IF ~IntOK(body) THEN [exc |-> "ValueError"]
        ELSE [value |-> IF Ch(s, 0) = "M" THEN (0 - 1) * ToInt(body) ELSE ToInt(body),
              exc |-> ""]

\* ------------------------------------------------------------------------
\* mlogic.py: parseMETAR
\* ------------------------------------------------------------------------

\* a variant of parseMETAR that falls back to the International pipeline
parseMETARDefaultInternational(txt) ==
    IF Len(txt) < 2 THEN "None"
    ELSE IF InList(Ch(txt, 0), RegionsUsingUSParser) THEN "US"
    ELSE "International"

\* a variant of parseMETAR whose length test is off by one
parseMETARShortOffByOne(txt) ==
    IF Len(txt) < 1 THEN "None"
    ELSE IF InList(Ch(txt, 0), RegionsUsingUSParser) THEN "US"
    ELSE IF InList(Ch(txt, 0), RegionsUsingInternationalParser) THEN "International"
    ELSE IF InList(SliceTo(txt, 2), MStationsUsingUSParser) THEN "US"
    ELSE IF InList(SliceTo(txt, 2), MStationsUsingInternationalParser) THEN "International"
    ELSE "None"

\* lines 216-220: the pipeline parseMETAR hands txt to, or "None" when it
\* returns without a record
parseMETAR(txt) ==
    IF Len(txt) < 2 THEN "None"
    ELSE IF InList(Ch(txt, 0), RegionsUsingUSParser) THEN "US"
    ELSE IF InList(Ch(txt, 0), RegionsUsingInternationalParser) THEN "International"
    ELSE IF InList(SliceTo(txt, 2), MStationsUsingUSParser) THEN "US"
    ELSE IF InList(SliceTo(txt, 2), MStationsUsingInternationalParser) THEN "International"
    ELSE "None"

\* line 214: the keys of a parsed record
Keys == {"Station", "Time", "Wind-Direction", "Wind-Speed", "Wind-Gust",
         "Wind-Variable-Dir", "Visibility", "Runway-Visibility", "Altimeter",
         "Temperature", "Dewpoint", "Cloud-List", "Other-List", "Remarks"}

\* ------------------------------------------------------------------------
\* Inputs
\* ------------------------------------------------------------------------

\* the most tokens that follow the first token of a generated report
MaxBody == 2

\* first tokens: US, International and Central American stations, an
\* unknown region, a one-letter text, and tokens the sanitizer reacts to
FirstTokens == {"KTOB", "EGLL", "MGGT", "MMMX", "XRAY", "REAB", "COR", "C/K", "K"}

\* tokens that follow
Vocabulary == {"252234Z", "29019G29KT", "10SM", "9999", "CAVOK", "OVC010", "FEW020",
               "01/M03", "A3002", "Q1013", "AUTO", "", "RMK", "+TSRA"}

\* the scenarios of the specification
ScenarioUS == "KTOB 252234Z AUTO 29019G29KT 10SM OVC010 01/M03 A3002 RMK AO2"

ScenarioInternational == "EGLL 010200Z 09010KT CAVOK 15/10 Q1013"

RECURSIVE Join(_)
Join(tokens) == IF Len(tokens) = 0 THEN ""
                ELSE IF Len(tokens) = 1 THEN tokens[1]
                ELSE tokens[1] \o " " \o Join(Tail(tokens))

Bodies == UNION {[1..k -> Vocabulary] : k \in 0..MaxBody}

\* Wind groups: a head token in each shape the wind extractor tests, alone
\* or followed by a detached gust, a variable range or a visibility
WindStations == {"KTOB", "EGLL"}
WindTokens == {"27007", "27015G25", "27015G25KT", "27015KTS", "VRB05KT", "27007MPS",
               "27007G12MPS", "030/15", "030/15G25", "0KT", "G35", "270V330"}
WindTails == {"", " G35", " 270V330", " G35 270V330", " 10SM"}
WindReports == {f \o " " \o w \o t : f \in WindStations, w \in WindTokens, t \in WindTails}

\* US visibility in two tokens, a whole number and a fraction, before a layer
VisWholes == {"1", "2", "10"}
VisNumerators == {"1", "3"}
VisDenominators == {"2", "4", "16"}
VisReports == {"KTOB " \o w \o " " \o n \o "/" \o d \o "SM OVC010" :
                   w \in VisWholes, n \in VisNumerators, d \in VisDenominators}

\* Trailing sections: up to three tokens among the markers the splitter
\* searches for, a token that contains one, and plain tokens
RemarkTokens == {"BECMG", "TEMPO", "RMK", "NOSIG", "9999", "AO2", "TEMPS"}
RemarkBodies == UNION {[1..k -> RemarkTokens] : k \in 1..3}
RemarkReports == {Join(<<"EGLL">> \o b) : b \in RemarkBodies}
                 \cup {"RMK AO2", "KTOB 252234ZRMK AO2", "KTOB 10SM?RMK AO2",
                       "EGLL ABTEMPS", "EGLL 9999NOSIG", "NOSIG", "TEMPS 9999"}

\* Time groups: the token after the station in the shape of a time group
\* and in shapes that miss it by one character, alone or before a wind
TimeTokens == {"252234Z", "25223Z", "2522345Z", "25223AZ", "252234", "252234X", "Z252234"}
TimeReports == {f \o " " \o t \o w : f \in WindStations, t \in TimeTokens,
                                     w \in {"", " 09010KT"}}

\* Altimeter: a tail token in the shape of an altimeter setting, in shapes
\* that miss it, a bare number, a bare letter and a bare slash
AltTokens == {"A3002", "Q1013", "ABC", "QNH", "3002", "A30", "Q10132", "30025",
              "A", "Q", "/"}
AltReports == {f \o " 09010KT " \o t : f \in WindStations, t \in AltTokens}

\* Cloud layers: one to three layers of every kind in every order
LayerTokens == {"FEW005", "SCT008", "BKN010", "OVC030", "VV002", "BKN///", "OVC050"}
LayerLists == UNION {[1..k -> LayerTokens] : k \in 1..3}
CloudReports == {Join(<<"KTOB", "10SM">> \o l) : l \in LayerLists}

Reports == {ScenarioUS, ScenarioInternational, ""}
           \cup {Join(<<f>> \o b) : f \in FirstTokens, b \in Bodies}
           \cup WindReports \cup VisReports \cup RemarkReports
           \cup TimeReports \cup AltReports \cup CloudReports

\* ------------------------------------------------------------------------
\* State
\* ------------------------------------------------------------------------

VARIABLES
    txt,         \* the raw report handed to parseMETAR
    pc,          \* the call parseMETAR makes next, or how it ended; the place
                 \* of the touchscreen's input loop
    variant,     \* the pipeline chosen: "US", "International" or ""
    wxData,      \* the token list the extractors consume
    retWX,       \* the record under construction (a dict)
    exc,         \* the exception that ended the call, or ""
    frVis,       \* getFlightRules' argument vis
    frCeiling,   \* getFlightRules' argument splitCloud (None is <<>>)
    flightRules, \* getFlightRules' return value, -1 before it returns
    codecIn,     \* the value a codec round trip started from
    station,     \* station_to_ident's argument, ident_to_station's return value
    idents,      \* ident_to_station's argument, station_to_ident's return value
    wx,          \* translateWX's argument
    wxString,    \* translateWX's return value
    ui,          \* the front end running: "screen", "plate" or ""
    ident,       \* self.ident, the four indices into IDENT_CHARS
    old_ident,   \* METARScreen.old_ident
    aliased,     \* self.ident is self.old_ident (one list object)
    metar,       \* self.metar: its station, whether data and units are set,
                 \* and whether the report has weather codes or remarks
    layout,      \* self.layout: large_display, and whether wx_rmk is given
    updater,     \* the place of main, of the task it starts first and of
                 \* update_loop
    stale,       \* the Metar whose update that task awaits is no longer
                 \* self.metar
    session,     \* the session on disk (common.save_session)
    inverted,    \* METARScreen.inverted
    on_main,     \* METARScreen.on_main
    buttons,     \* the handlers of self.buttons
    stack,       \* METARPlate: the calls that are running, main's first
    selection,   \* METARPlate: lcd_shutdown's selection (True is Y)
    cursorPos,   \* __handle_select's cursorPos; the column of the last triangle
    key,         \* the selection handler or key that ran last, or ""
    outcome,     \* what verify_station's lookup or new_station's download
                 \* answered, how the plate's program ended, or ""
    presses      \* the number of selection presses handled so far

\* the state of the decoder and classifier
parseVars == <<txt, variant, wxData, retWX, frVis, frCeiling, flightRules>>

\* the state of the station selection
uiVars == <<ui, ident, old_ident, aliased, metar, layout, updater, stale, session, inverted,
            on_main, buttons, stack, selection, cursorPos, key, outcome, presses>>

\* the state of the station codec, the weather translator and the selection
pureVars == <<codecIn, station, idents, wx, wxString, uiVars>>

vars == <<txt, pc, variant, wxData, retWX, exc, frVis, frCeiling, flightRules,
          codecIn, station, idents, wx, wxString, uiVars>>

\* no front end is running
UiIdle ==
    /\ ui = ""
    /\ ident = <<>>
    /\ old_ident = <<>>
    /\ aliased = FALSE
    /\ metar = [station |-> "", data |-> FALSE, units |-> FALSE, wxrmk |-> FALSE]
    /\ layout = [large_display |-> FALSE, wx_rmk |-> FALSE]
    /\ updater = ""
    /\ stale = FALSE
    /\ session = [station |-> "", inverted |-> FALSE]
    /\ inverted = FALSE
    /\ on_main = FALSE
    /\ buttons = {}
    /\ stack = <<>>
    /\ selection = FALSE
    /\ cursorPos = 0
    /\ key = ""
    /\ outcome = ""
    /\ presses = 0

\* nothing has been handed to the codec or the translator
PureIdle ==
    /\ codecIn = [kind |-> "", station |-> "", idents |-> <<>>]
    /\ station = ""
    /\ idents = <<>>
    /\ wx = ""
    /\ wxString = ""
    /\ UiIdle

Init ==
    /\ txt \in Reports
    /\ pc = "parseMETAR"
    /\ variant = ""
    /\ wxData = <<>>
    /\ retWX = <<>>
    /\ exc = ""
    /\ frVis = ""
    /\ frCeiling = <<>>
    /\ flightRules = -1
    /\ PureIdle

\* a stage ends the call with the exception e
Raise(e) ==
    /\ pc' = "raised"
    /\ exc' = e
    /\ UNCHANGED <<txt, variant, wxData, retWX, frVis, frCeiling, flightRules>>
    /\ UNCHANGED pureVars

\* a stage stores fields in the record and goes on with the tokens left
Store(next, left, fields) ==
    /\ pc' = next
    /\ wxData' = left
    /\ retWX' = fields @@ retWX
    /\ UNCHANGED <<txt, variant, exc, frVis, frCeiling, flightRules>>
    /\ UNCHANGED pureVars

\* lines 215-220
ParseMETAR ==
    /\ pc = "parseMETAR"
    /\ pc' = IF parseMETAR(txt) = "None" THEN "None" ELSE "getRemarks"
    /\ variant' = IF parseMETAR(txt) = "None" THEN "" ELSE parseMETAR(txt)
    /\ UNCHANGED <<txt, wxData, retWX, exc, frVis, frCeiling, flightRules>>
    /\ UNCHANGED pureVars

\* lines 224, 236
GetRemarks ==
    /\ pc = "getRemarks"
    /\ Store("sanitize", getRemarks(txt).wxData, "Remarks" :> getRemarks(txt).remarks)

\* lines 225, 237
Sanitize ==
    /\ pc = "sanitize"
    /\ LET r == sanitize(wxData)
       IN  IF r.exc # "" THEN Raise(r.exc)
           ELSE Store("getAltimeter", r.wxData, "Runway-Visibility" :> r.runwayVisibility)

\* line 226
GetAltimeterUS ==
    /\ pc = "getAltimeter"
    /\ variant = "US"
    /\ LET r == getAltimeterUS(wxData)
       IN  IF r.exc # "" THEN Raise(r.exc)
           ELSE Store("getTempAndDewpoint", r.wxData, "Altimeter" :> r.altimeter)

\* line 238
GetAltimeterInternational ==
    /\ pc = "getAltimeter"
    /\ variant = "International"
    /\ LET r == getAltimeterInternational(wxData)
       IN  IF r.exc # "" THEN Raise(r.exc)
           ELSE Store("getTempAndDewpoint", r.wxData, "Altimeter" :> r.altimeter)

\* lines 227, 239
GetTempAndDewpoint ==
    /\ pc = "getTempAndDewpoint"
    /\ LET r == getTempAndDewpoint(wxData)
       IN  Store("getStationAndTime", r.wxData,
                 ("Temperature" :> r.temperature) @@ ("Dewpoint" :> r.dewpoint))

\* lines 228, 240
GetStationAndTime ==
    /\ pc = "getStationAndTime"
    /\ LET r == getStationAndTime(wxData)
       IN  IF r.exc # "" THEN Raise(r.exc)
           ELSE Store("getWindInfo", r.wxData, ("Station" :> r.station) @@ ("Time" :> r.time))

\* lines 229, 241
GetWindInfo ==
    /\ pc = "getWindInfo"
    /\ LET r == getWindInfo(wxData)
       IN  Store("getVisibility", r.wxData,
                 ("Wind-Direction" :> r.direction) @@ ("Wind-Speed" :> r.speed) @@
                 ("Wind-Gust" :> r.gust) @@ ("Wind-Variable-Dir" :> r.variable))

\* line 230
GetVisibilityUS ==
    /\ pc = "getVisibility"
    /\ variant = "US"
    /\ LET r == getVisibilityUS(wxData)
       IN  IF r.exc # "" THEN Raise(r.exc)
           ELSE Store("getClouds", r.wxData, "Visibility" :> r.visibility)

\* lines 231-232
GetCloudsUS ==
    /\ pc = "getClouds"
    /\ variant = "US"
    /\ LET r == getClouds(wxData)
       IN  Store("returned", r.wxData,
                 ("Other-List" :> r.wxData) @@ ("Cloud-List" :> r.clouds))

\* a variant of Cavok that forgets wxData.pop(0)
CavokNotConsumed ==
    /\ pc = "getVisibility"
    /\ variant = "International"
    /\ wxData # <<>> /\ wxData[1] = "CAVOK"
    /\ Store("returned", wxData,
             ("Visibility" :> "9999") @@ ("Cloud-List" :> <<>>) @@
             ("Other-List" :> wxData))

\* lines 242-245 and 249-250
Cavok ==
    /\ pc = "getVisibility"
    /\ variant = "International"
    /\ wxData # <<>> /\ wxData[1] = "CAVOK"
    /\ Store("returned", Tail(wxData),
             ("Visibility" :> "9999") @@ ("Cloud-List" :> <<>>) @@
             ("Other-List" :> Tail(wxData)))

\* line 247
GetVisibilityInternational ==
    /\ pc = "getVisibility"
    /\ variant = "International"
    /\ ~(wxData # <<>> /\ wxData[1] = "CAVOK")
    /\ LET r == getVisibilityInternational(wxData)
       IN  Store("getClouds", r.wxData, "Visibility" :> r.visibility)

\* lines 248-250
GetCloudsInternational ==
    /\ pc = "getClouds"
    /\ variant = "International"
    /\ LET r == getClouds(wxData)
       IN  Store("returned", r.wxData,
                 ("Cloud-List" :> r.clouds) @@ ("Other-List" :> r.wxData))

\* line 317 and mplate.py line 186: the caller hands the record's visibility
\* and ceiling to getFlightRules
CallFlightRules ==
    /\ pc = "returned"
    /\ pc' = "getFlightRules"
    /\ frVis' = retWX["Visibility"]
    /\ frCeiling' = getCeiling(retWX["Cloud-List"])
    /\ UNCHANGED <<txt, variant, wxData, retWX, exc, flightRules>>
    /\ UNCHANGED pureVars

\* lines 255-273
GetFlightRules ==
    /\ pc = "getFlightRules"
    /\ LET r == getFlightRules(frVis, frCeiling)
       IN  /\ flightRules' = r.rules
           /\ exc' = r.exc
           /\ pc' = IF r.exc # "" THEN "raised" ELSE "classified"
    /\ UNCHANGED <<txt, variant, wxData, retWX, frVis, frCeiling>>
    /\ UNCHANGED pureVars

Next ==
    \/ ParseMETAR
    \/ GetRemarks
    \/ Sanitize
    \/ GetAltimeterUS
    \/ GetAltimeterInternational
    \/ GetTempAndDewpoint
    \/ GetStationAndTime
    \/ GetWindInfo
    \/ GetVisibilityUS
    \/ GetCloudsUS
    \/ Cavok
    \/ GetVisibilityInternational
    \/ GetCloudsInternational
    \/ CallFlightRules
    \/ GetFlightRules

Spec == Init /\ [][Next]_vars

\* ------------------------------------------------------------------------
\* getFlightRules on its own: the arguments are drawn from bounded sets
\* ------------------------------------------------------------------------

\* the largest whole number of statute miles, and numerator of a fraction
MaxVis == 12

\* the largest denominator of a fractional visibility
MaxDen == 4

\* the highest ceiling, in hundreds of feet
MaxCeil == 35

\* a visibility of n/d statute miles as the US pipeline writes it
FmtVis(n, d) == IF d = 1 THEN IntToStr(n) ELSE IntToStr(n) \o "/" \o IntToStr(d)

\* a cloud height of h hundred feet as a report writes it: 3 digits
FmtHeight(h) == IF h < 10 THEN "00" \o IntToStr(h)
                ELSE IF h < 100 THEN "0" \o IntToStr(h)
                ELSE IntToStr(h)

VisInputs == {FmtVis(n, d) : n \in 0..MaxVis, d \in 1..MaxDen}
             \cup {"", "M1/4", "9999", "0800", "4000"}

CeilingInputs == {<<t, FmtHeight(h)>> : t \in {"OVC", "BKN", "VV"}, h \in 0..MaxCeil}
                 \cup {<<>>, <<"OVC">>, <<"OVC", "///">>}

InitFR ==
    /\ txt = ""
    /\ pc = "getFlightRules"
    /\ variant = ""
    /\ wxData = <<>>
    /\ retWX = <<>>
    /\ exc = ""
    /\ frVis \in VisInputs
    /\ frCeiling \in CeilingInputs
    /\ flightRules = -1
    /\ PureIdle

NextFR == GetFlightRules

SpecFR == InitFR /\ [][NextFR]_vars

\* ------------------------------------------------------------------------
\* Station codec (common.py)
\* ------------------------------------------------------------------------

\* common.py IDENT_CHARS: the selector alphabet, A-Z then 0-9
IDENT_CHARS == <<"A", "B", "C", "D", "E", "F", "G", "H", "I", "J", "K", "L", "M",
                 "N", "O", "P", "Q", "R", "S", "T", "U", "V", "W", "X", "Y", "Z",
                 "0", "1", "2", "3", "4", "5", "6", "7", "8", "9">>

UpperCase == "ABCDEFGHIJKLMNOPQRSTUVWXYZ"
LowerCase == "abcdefghijklmnopqrstuvwxyz"
DigitChars == "0123456789"

\* str.isalpha of one ASCII character
IsAlpha(char) == Find(UpperCase, char) >= 0 \/ Find(LowerCase, char) >= 0

\* ord of an ASCII letter or digit
Ord(char) ==
    IF Find(UpperCase, char) >= 0 THEN 65 + Find(UpperCase, char)
    ELSE IF Find(LowerCase, char) >= 0 THEN 97 + Find(LowerCase, char)
    ELSE 48 + Find(DigitChars, char)

\* ident_to_station: "".join([IDENT_CHARS[num] for num in idents]); a list
\* index outside -36..35 is an IndexError
ident_to_station(idents_) ==
    LET n == Len(IDENT_CHARS)
        bad == \E k \in 1..Len(idents_) : idents_[k] < -n \/ idents_[k] >= n
        join[k \in 0..Len(idents_)] ==
            IF k = 0 THEN "" ELSE join[k - 1] \o IDENT_CHARS[(idents_[k] % n) + 1]
    IN  IF bad THEN [station |-> "", exc |-> "IndexError"]
        ELSE [station |-> join[Len(idents_)], exc |-> ""]

\* station_to_ident with the digits placed one index too far
station_to_identDigitsShifted(station_) ==
    LET ret[k \in 0..Len(station_)] ==
            IF k = 0 THEN <<>>
            ELSE LET char == Ch(station_, k - 1)
                 IN  IF IsAlpha(char) THEN Append(ret[k - 1], Ord(char) - 65)
                     ELSE IF IsDigit(char) THEN Append(ret[k - 1], Ord(char) - 21)
                     ELSE ret[k - 1]
    IN  ret[Len(station_)]

\* station_to_ident: a letter is ord - 65, a digit is ord - 22, any other
\* character is skipped
station_to_ident(station_) ==
    LET ret[k \in 0..Len(station_)] ==
            IF k = 0 THEN <<>>
            ELSE LET char == Ch(station_, k - 1)
                 IN  IF IsAlpha(char) THEN Append(ret[k - 1], Ord(char) - 65)
                     ELSE IF IsDigit(char) THEN Append(ret[k - 1], Ord(char) - 22)
                     ELSE ret[k - 1]
    IN  ret[Len(station_)]

\* Codec inputs: every list of four indices in which at most one position
\* leaves the corner symbols A, Z, 0, 9, and the strings these lists spell;
\* a lower-case, a punctuated and a short station besides
CornerIdents == {0, 25, 26, 35}

IdentInputs ==
    {[base EXCEPT ![p] = v] : base \in [1..4 -> CornerIdents], p \in 1..4, v \in 0..35}

Spell(i) == IDENT_CHARS[i[1] + 1] \o IDENT_CHARS[i[2] + 1]
            \o IDENT_CHARS[i[3] + 1] \o IDENT_CHARS[i[4] + 1]

StationInputs == {Spell(i) : i \in IdentInputs} \cup {"ktob", "K-OB", "KJ"}

InitCodec ==
    /\ txt = ""
    /\ variant = ""
    /\ wxData = <<>>
    /\ retWX = <<>>
    /\ exc = ""
    /\ frVis = ""
    /\ frCeiling = <<>>
    /\ flightRules = -1
    /\ wx = ""
    /\ wxString = ""
    /\ UiIdle
    /\ \/ \E s \in StationInputs :
             /\ codecIn = [kind |-> "station", station |-> s, idents |-> <<>>]
             /\ station = s
             /\ idents = <<>>
             /\ pc = "station_to_ident"
       \/ \E i \in IdentInputs \cup {<<10, -1, 0, 36>>} :
             /\ codecIn = [kind |-> "idents", station |-> "", idents |-> i]
             /\ station = ""
             /\ idents = i
             /\ pc = "ident_to_station"

\* self.ident = common.station_to_ident(station)
StationToIdent ==
    /\ pc = "station_to_ident"
    /\ idents' = station_to_ident(station)
    /\ pc' = IF codecIn.kind = "station" THEN "ident_to_station" ELSE "codec_done"
    /\ UNCHANGED <<exc, codecIn, station, wx, wxString>>
    /\ UNCHANGED <<parseVars, uiVars>>

\* return common.ident_to_station(self.ident)
IdentToStation ==
    /\ pc = "ident_to_station"
    /\ LET r == ident_to_station(idents)
       IN  /\ station' = r.station
           /\ exc' = r.exc
           /\ pc' = IF r.exc # "" THEN "raised"
                    ELSE IF codecIn.kind = "idents" THEN "station_to_ident"
                    ELSE "codec_done"
    /\ UNCHANGED <<codecIn, idents, wx, wxString>>
    /\ UNCHANGED <<parseVars, uiVars>>

NextCodec == StationToIdent \/ IdentToStation

SpecCodec == InitCodec /\ [][NextCodec]_vars

\* ------------------------------------------------------------------------
\* Weather-code translator (mlogic.py translateWX)
\* ------------------------------------------------------------------------

\* mlogic.py wxReplacements; the literal gives 'UP' twice and the later
\* value, 'Unknown', is the one the dict keeps
wxReplacements ==
    ("RA" :> "Rain") @@ ("TS" :> "Thunderstorm") @@ ("SH" :> "Showers")
    @@ ("DZ" :> "Drizzle") @@ ("VC" :> "Vicinity") @@ ("UP" :> "Unknown")
    @@ ("SN" :> "Snow") @@ ("FZ" :> "Freezing") @@ ("SG" :> "Snow Grains")
    @@ ("IC" :> "Ice Crystals") @@ ("PL" :> "Ice Pellets") @@ ("GR" :> "Hail")
    @@ ("GS" :> "Small Hail") @@ ("FG" :> "Fog") @@ ("BR" :> "Mist")
    @@ ("HZ" :> "Haze") @@ ("VA" :> "Volcanic Ash") @@ ("DU" :> "Wide Dust")
    @@ ("FU" :> "Smoke") @@ ("SA" :> "Sand") @@ ("SY" :> "Spray")
    @@ ("SQ" :> "Squall") @@ ("PO" :> "Dust Whirls") @@ ("DS" :> "Duststorm")
    @@ ("SS" :> "Sandstorm") @@ ("FC" :> "Funnel Cloud") @@ ("BL" :> "Blowing")
    @@ ("MI" :> "Shallow") @@ ("BC" :> "Patchy") @@ ("PR" :> "Partial")

\* translateWX with the separating space left out
translateWXNoSpace(wx_) ==
    IF wx_ = "" THEN [ret |-> "", exc |-> "IndexError"]
    ELSE
    LET head == IF Ch(wx_, 0) = "+" THEN "Heavy "
                ELSE IF Ch(wx_, 0) = "-" THEN "Light " ELSE ""
        code == IF Ch(wx_, 0) \in {"+", "-"} THEN SliceFrom(wx_, 1) ELSE wx_
        loop[i \in 0..(Len(code) \div 2)] ==
            IF i = 0 THEN head
            ELSE LET two == Slice(code, 2 * (i - 1), 2 * i)
                 IN  IF two \in DOMAIN wxReplacements
                     THEN loop[i - 1] \o wxReplacements[two]
                     ELSE loop[i - 1] \o two
    IN  IF Len(code) \notin {2, 4, 6} THEN [ret |-> code, exc |-> ""]
        ELSE [ret |-> loop[Len(code) \div 2], exc |-> ""]

\* translateWX: wx[0] of an empty token is an IndexError; the prefix is
\* stripped before the length test, so the early return gives the stripped
\* token; the loop reads wx[:2] and drops it, len(wx)//2 times
translateWX(wx_) ==
    IF wx_ = "" THEN [ret |-> "", exc |-> "IndexError"]
    ELSE
    LET head == IF Ch(wx_, 0) = "+" THEN "Heavy "
                ELSE IF Ch(wx_, 0) = "-" THEN "Light " ELSE ""
        code == IF Ch(wx_, 0) \in {"+", "-"} THEN SliceFrom(wx_, 1) ELSE wx_
        loop[i \in 0..(Len(code) \div 2)] ==
            IF i = 0 THEN head
            ELSE LET two == Slice(code, 2 * (i - 1), 2 * i)
                 IN  IF two \in DOMAIN wxReplacements
                     THEN loop[i - 1] \o wxReplacements[two] \o " "
                     ELSE loop[i - 1] \o two
    IN  IF Len(code) \notin {2, 4, 6} THEN [ret |-> code, exc |-> ""]
        ELSE [ret |-> loop[Len(code) \div 2], exc |-> ""]

\* Translator inputs: an optional intensity prefix, up to MaxCodes two-letter
\* codes (four of the table, one outside it), an optional odd character
MaxCodes == 3
WxPrefixes == {"", "+", "-"}
WxCodes == {"TS", "RA", "SH", "UP", "R0"}
WxTails == {"", "1"}

CodeLists == UNION {[1..k -> WxCodes] : k \in 0..MaxCodes}

RECURSIVE JoinCodes(_)
JoinCodes(cs) == IF cs = <<>> THEN "" ELSE cs[1] \o JoinCodes(Tail(cs))

WxInputs == {p \o JoinCodes(cs) \o t : p \in WxPrefixes, cs \in CodeLists, t \in WxTails}

InitWX ==
    /\ txt = ""
    /\ variant = ""
    /\ wxData = <<>>
    /\ retWX = <<>>
    /\ exc = ""
    /\ frVis = ""
    /\ frCeiling = <<>>
    /\ flightRules = -1
    /\ codecIn = [kind |-> "", station |-> "", idents |-> <<>>]
    /\ station = ""
    /\ idents = <<>>
    /\ wx \in WxInputs
    /\ wxString = ""
    /\ UiIdle
    /\ pc = "translateWX"

\* ret += '  --  ' + translateWX(wx)
TranslateWX ==
    /\ pc = "translateWX"
    /\ LET r == translateWX(wx)
       IN  /\ wxString' = r.ret
           /\ exc' = r.exc
           /\ pc' = IF r.exc # "" THEN "raised" ELSE "translated"
    /\ UNCHANGED <<codecIn, station, idents, wx>>
    /\ UNCHANGED <<parseVars, uiVars>>

NextWX == TranslateWX

SpecWX == InitWX /\ [][NextWX]_vars

\* ------------------------------------------------------------------------
\* The sanitizer alone (mlogic.py __sanitize) on token lists
\* ------------------------------------------------------------------------

\* Sanitizer inputs: lists of up to MaxSan tokens among a station, runway
\* visual ranges, recent weather, noise, the halves of split pairs and the
\* empty token; every noise token at each place of a short list besides
MaxSan == 3
SanTokens == {"KTOB", "R06/0600", "R24L/1200", "RERA", "RETSRA", "AUTO", "KT", "M",
              "SM", "10", "27007", "OVC", "010", ""}
SanLists == UNION {[1..k -> SanTokens] : k \in 0..MaxSan}
NoiseLists == {<<a, NoiseTokens[n], b>> : n \in 1..Len(NoiseTokens), a \in {"KTOB", "27007"},
                                           b \in {"10SM", "OVC"}}
              \cup {<<NoiseTokens[n], "KTOB">> : n \in 1..Len(NoiseTokens)}
              \cup {<<"KTOB", NoiseTokens[n]>> : n \in 1..Len(NoiseTokens)}

InitSan ==
    /\ wxData \in SanLists \cup NoiseLists
    /\ txt = Join(wxData)
    /\ pc = "sanitize"
    /\ variant = "US"
    /\ retWX = ("Remarks" :> "")
    /\ exc = ""
    /\ frVis = ""
    /\ frCeiling = <<>>
    /\ flightRules = -1
    /\ PureIdle

NextSan == Sanitize

SpecSan == InitSan /\ [][NextSan]_vars

\* ------------------------------------------------------------------------
\* Station selection: the touchscreen (metar_raspi/screen.py METARScreen,
\* the same code as screen.py) and the LCD plate (plate.py METARPlate).
\* A METARScreen is the record scr of its fields; self.buttons is the set of
\* the handlers its buttons call.  The touchscreen runs two tasks: the input
\* loop, whose place is pc ("ui" between touches), and the task of main and
\* update_loop, whose place is updater.  A handler that awaits a download
\* is two steps, the one up to the await and the one after the answer.
\* main runs the input loop twice: beside refresh_data(force_main=True),
\* until that has returned, and beside update_loop; the first input loop is
\* cancelled when main goes from one to the other.
\* Whether avwx knows a station, and what a download answers, is the
\* environment's choice at each call; within one handler Metar(station)
\* accepts the station Station.from_icao has just accepted.  The plate is
\* one thread: stack holds its running calls, each step runs to the next
\* reading of the keys or download, and stack is empty when the program has
\* ended.
\* ------------------------------------------------------------------------

\* the property station: common.ident_to_station(self.ident)
screen_station(scr) == ident_to_station(scr.ident).station

\* export_session: common.save_session({"station": ..., "inverted": ...})
export_session(scr) ==
    [scr EXCEPT !.session = [station |-> screen_station(scr),
                             inverted |-> scr.inverted]]

\* __error_msg under @draw_func: one cancel button calling btnf
error_msg(scr, btnf) == [scr EXCEPT !.on_main = FALSE, !.buttons = {btnf}]

error_no_data(scr) == error_msg(scr, "draw_selection_screen")

error_station(scr) == error_msg(scr, "draw_selection_screen")

error_reporting(scr) == error_msg(scr, "draw_selection_screen")

error_unknown(scr) == error_msg(scr, "draw_selection_screen")

\* error_connection: cancel goes to the main screen, and a reload button
error_connection(scr) ==
    [scr EXCEPT !.on_main = TRUE, !.buttons = {"draw_main", "refresh_data"}]

\* draw_main: the error screen when no report is loaded; on a display that
\* is not large a report with weather codes or remarks gets the WX/RMK button
draw_main(scr) ==
    IF ~(scr.metar.data /\ scr.metar.units) THEN error_no_data(scr)
    ELSE [scr EXCEPT !.on_main = TRUE,
                     !.buttons = {"draw_options_bar"}
                                 \cup (IF ~scr.is_large /\ scr.metar.wxrmk
                                       THEN {"draw_rmk"} ELSE {})]

\* draw_rmk: nothing is drawn, and no button, when the layout has no wxrmk
draw_rmk(scr) ==
    IF ~scr.metar.data THEN error_no_data(scr)
    ELSE IF ~scr.layout.wx_rmk THEN [scr EXCEPT !.on_main = FALSE, !.buttons = {}]
    ELSE [scr EXCEPT !.on_main = FALSE, !.buttons = {"draw_main"}]

draw_loading_screen(scr) == [scr EXCEPT !.on_main = TRUE, !.buttons = {}]

draw_options_bar(scr) ==
    [scr EXCEPT !.on_main = FALSE,
                !.buttons = {"draw_main", "draw_selection_screen", "draw_quit_screen",
                             "invert_wb", "draw_info_screen"}]

draw_quit_screen(scr) ==
    [scr EXCEPT !.on_main = FALSE, !.buttons = {"quit", "draw_main"}]

draw_info_screen(scr) == [scr EXCEPT !.on_main = FALSE, !.buttons = {"draw_main"}]

draw_selection_screen(scr) ==
    [scr EXCEPT !.on_main = FALSE,
                !.buttons = {"verify_station", "cancel_station", "incr_ident"}]

\* draw_no_network, the first half of wait_for_network
draw_no_network(scr) == [scr EXCEPT !.on_main = FALSE, !.buttons = {"quit"}]

invert_wb(scr) == draw_main(export_session([scr EXCEPT !.inverted = ~scr.inverted]))

\* the update_func of __incr_ident(pos, down) on the list self.ident
incr_ident(ident_, pos, down) ==
    LET cur == ident_[pos + 1]
    IN  IF down
        THEN [ident_ EXCEPT ![pos + 1] =
                 (IF cur = 0 THEN Len(IDENT_CHARS) ELSE cur) - 1]
        ELSE [ident_ EXCEPT ![pos + 1] =
                 IF cur + 1 = Len(IDENT_CHARS) THEN 0 ELSE cur + 1]

\* cancel_station: self.ident = self.old_ident binds both names to one list
cancel_station(scr) ==
    LET s == [scr EXCEPT !.ident = scr.old_ident, !.aliased = TRUE]
    IN  IF ~s.metar.data THEN error_no_data(s) ELSE draw_main(s)

\* what an update of a Metar can answer: True ("ok"), False ("no_data") or an
\* exception; SourceError is handled wherever TimeoutError is and goes by
\* that name
UpdateErrors == {"TimeoutError", "ConnectionError", "InvalidRequest", "Exception"}
UpdateAnswers == {"ok", "no_data"} \cup UpdateErrors

\* an answer, and for a report whether it has weather codes or remarks
UpdateResults ==
    {r \in [answer : UpdateAnswers, wxrmk : BOOLEAN] : r.wxrmk => r.answer = "ok"}

\* new_station after its await, with old_ident replaced whatever the answer
new_stationEager(scr, answer, wxrmk_) ==
    LET s == [scr EXCEPT !.old_ident = scr.ident, !.aliased = FALSE]
    IN  CASE answer = "no_data" -> error_no_data(s)
          [] answer \in {"TimeoutError", "ConnectionError"} -> error_connection(s)
          [] answer = "InvalidRequest" -> error_station(s)
          [] answer = "Exception" -> error_unknown(s)
          [] OTHER ->
                draw_main(export_session(
                    [s EXCEPT !.metar = [station |-> screen_station(s), data |-> TRUE,
                                        units |-> TRUE, wxrmk |-> wxrmk_]]))

\* new_station from the answer of new_metar.async_update() on (lines
\* 363-380); the lines before the await are verify_station's last branch.
\* On True self.metar is new_metar, the Metar made of self.station at line
\* 361, which now holds a report with its units; wxrmk_ says whether the
\* report has weather codes or remarks
new_station(scr, answer, wxrmk_) ==
    CASE answer = "no_data" -> error_no_data(scr)
      [] answer \in {"TimeoutError", "ConnectionError"} -> error_connection(scr)
      [] answer = "InvalidRequest" -> error_station(scr)
      [] answer = "Exception" -> error_unknown(scr)
      [] OTHER ->
            draw_main(export_session(
                [scr EXCEPT !.metar = [station |-> screen_station(scr), data |-> TRUE,
                                       units |-> TRUE, wxrmk |-> wxrmk_],
                            !.old_ident = scr.ident,
                            !.aliased = FALSE]))

\* verify_station: Station.from_icao raises BadStation, or the station sends
\* no reports, or new_station starts: the loading screen, then its await
verify_station(scr, answer) ==
    CASE answer = "BadStation" -> error_station(scr)
      [] answer = "sends_no_reports" -> error_reporting(scr)
      [] OTHER -> draw_loading_screen(scr)

\* refresh_data from the answer of its await on; nothing changes before the
\* await.  The Metar updated is the one self.metar was when the call began:
\* own says that it still is self.metar
refresh_data(scr, own, answer, wxrmk_, force_main, ignore_updated) ==
    CASE answer = "ConnectionError" -> draw_no_network(scr)
      [] answer = "TimeoutError" -> error_connection(scr)
      [] answer = "InvalidRequest" -> error_station(scr)
      [] answer = "Exception" -> error_unknown(scr)
      [] OTHER ->
            LET s == IF answer = "ok" /\ own
                     THEN [scr EXCEPT !.metar.data = TRUE, !.metar.units = TRUE,
                                      !.metar.wxrmk = wxrmk_]
                     ELSE scr
                updated == answer = "ok" \/ ignore_updated
            IN  IF updated /\ (s.on_main \/ force_main) THEN draw_main(s)
                ELSE IF force_main /\ ~updated THEN error_no_data(s)
                ELSE s

\* one pass of __handle_select's loop with UP not wrapping below index 0
handle_selectNoWrap(ident_, cursorPos_, key_) ==
    LET curNum == ident_[cursorPos_ + 1]
    IN  CASE key_ = "UP" ->
                [ident |-> [ident_ EXCEPT ![cursorPos_ + 1] = curNum - 1],
                 cursorPos |-> cursorPos_]
          [] key_ = "DOWN" ->
                [ident |-> [ident_ EXCEPT ![cursorPos_ + 1] =
                               IF curNum + 1 = Len(IDENT_CHARS) THEN 0 ELSE curNum + 1],
                 cursorPos |-> cursorPos_]
          [] key_ = "RIGHT" ->
                [ident |-> ident_,
                 cursorPos |-> IF cursorPos_ < 3 THEN cursorPos_ + 1 ELSE cursorPos_]
          [] key_ = "LEFT" ->
                [ident |-> ident_,
                 cursorPos |-> IF cursorPos_ > 0 THEN cursorPos_ - 1 ELSE cursorPos_]
          [] OTHER -> [ident |-> ident_, cursorPos |-> cursorPos_]

\* one pass of __handle_select's loop with the key key_ pressed
handle_select(ident_, cursorPos_, key_) ==
    LET curNum == ident_[cursorPos_ + 1]
    IN  CASE key_ = "UP" ->
                [ident |-> [ident_ EXCEPT ![cursorPos_ + 1] =
                               (IF curNum = 0 THEN Len(IDENT_CHARS) ELSE curNum) - 1],
                 cursorPos |-> cursorPos_]
          [] key_ = "DOWN" ->
                [ident |-> [ident_ EXCEPT ![cursorPos_ + 1] =
                               IF curNum + 1 = Len(IDENT_CHARS) THEN 0 ELSE curNum + 1],
                 cursorPos |-> cursorPos_]
          [] key_ = "RIGHT" ->
                [ident |-> ident_,
                 cursorPos |-> IF cursorPos_ < 3 THEN cursorPos_ + 1 ELSE cursorPos_]
          [] key_ = "LEFT" ->
                [ident |-> ident_,
                 cursorPos |-> IF cursorPos_ > 0 THEN cursorPos_ - 1 ELSE cursorPos_]
          [] OTHER -> [ident |-> ident_, cursorPos |-> cursorPos_]

\* the keys of the plate; any of them can be held when one is read
SelectKeys == {"UP", "DOWN", "LEFT", "RIGHT", "SELECT"}

\* the property pressed_shutdown with the keys held
pressed_shutdown(held) == "LEFT" \in held /\ "RIGHT" \in held

\* the branch one pass of __handle_select's loop takes
select_branch(held) ==
    IF pressed_shutdown(held) THEN "lcd_shutdown"
    ELSE IF "UP" \in held THEN "UP"
    ELSE IF "DOWN" \in held THEN "DOWN"
    ELSE IF "RIGHT" \in held THEN "RIGHT"
    ELSE IF "LEFT" \in held THEN "LEFT"
    ELSE IF "SELECT" \in held THEN "SELECT"
    ELSE ""

\* the branch __scroll_button_check takes
scroll_button_check(held) ==
    IF "SELECT" \in held THEN "lcd_select"
    ELSE IF pressed_shutdown(held) THEN "lcd_shutdown"
    ELSE ""

\* the branch one pass of lcd_shutdown's loop takes
lcd_shutdown(held, selection_) ==
    IF "RIGHT" \in held /\ selection_ THEN "N"
    ELSE IF "LEFT" \in held /\ ~selection_ THEN "Y"
    ELSE IF "SELECT" \in held THEN "selected"
    ELSE ""

\* what metar.update() can answer in update_metar: a report, no report,
\* BadStation, ConnectionError, or anything the bare except catches
PlateAnswers == {"ok", "no_data", "BadStation", "ConnectionError", "Exception"}

\* Stations the session on disk names at start; the second has an index at
\* each end of IDENT_CHARS.  The model takes MaxPresses key presses on the
\* plate and MaxTouches touches of a triangle on the touchscreen.
UiStations == {"KJFK", "A9A9"}
MaxPresses == 4
MaxTouches == 1

\* the columns of the selection screen whose triangles are touched: the
\* first and the last
Columns == {0, 3}

\* The layout file read at start (layout.py Layout.from_dict): a small
\* display with the WX/RMK screen, or a large display that shows the raw
\* report on the main screen and has no wxrmk entry
Layouts == {[large_display |-> FALSE, wx_rmk |-> TRUE],
            [large_display |-> TRUE, wx_rmk |-> FALSE]}

\* the METARScreen as a record of its fields
Screen ==
    [ident |-> ident, old_ident |-> old_ident, aliased |-> aliased, metar |-> metar,
     session |-> session, inverted |-> inverted, on_main |-> on_main,
     buttons |-> buttons, layout |-> layout, is_large |-> layout.large_display]

\* the fields of the METARScreen become those of scr
SetScreen(scr) ==
    /\ ident' = scr.ident
    /\ old_ident' = scr.old_ident
    /\ aliased' = scr.aliased
    /\ metar' = scr.metar
    /\ session' = scr.session
    /\ inverted' = scr.inverted
    /\ on_main' = scr.on_main
    /\ buttons' = scr.buttons
    /\ layout' = layout

\* the decoder, the codec and the translator are not running
NoCall ==
    /\ txt = ""
    /\ variant = ""
    /\ wxData = <<>>
    /\ retWX = <<>>
    /\ exc = ""
    /\ frVis = ""
    /\ frCeiling = <<>>
    /\ flightRules = -1
    /\ codecIn = [kind |-> "", station |-> "", idents |-> <<>>]
    /\ station = ""
    /\ idents = <<>>
    /\ wx = ""
    /\ wxString = ""

otherVars == <<txt, variant, wxData, retWX, exc, frVis, frCeiling, flightRules,
               codecIn, station, idents, wx, wxString>>

\* METARScreen.from_session / METARPlate.from_session on the saved session
\* (a missing file or key gives KJFK and True): Metar(station) has no report
\* yet, and is Metar("KJFK") when avwx does not know the station; the
\* plate reads and saves the station only
InitUI ==
    /\ NoCall
    /\ pc = "ui"
    /\ ui \in {"screen", "plate"}
    /\ \E s \in UiStations, known \in BOOLEAN, inv \in BOOLEAN :
          /\ ident = station_to_ident(s)
          /\ old_ident = IF ui = "screen" THEN station_to_ident(s) ELSE <<>>
          /\ metar = [station |-> IF known THEN s ELSE "KJFK",
                      data |-> FALSE, units |-> FALSE, wxrmk |-> FALSE]
          /\ session = IF ui = "screen" THEN [station |-> s, inverted |-> inv]
                       ELSE [station |-> s]
          /\ inverted = (ui = "screen" /\ inv)
    /\ IF ui = "screen" THEN layout \in Layouts
       ELSE layout = [large_display |-> FALSE, wx_rmk |-> FALSE]
    /\ updater = IF ui = "screen" THEN "main" ELSE ""
    /\ stack = IF ui = "plate" THEN <<"update_metar">> ELSE <<>>
    /\ selection = FALSE
    /\ stale = FALSE
    /\ aliased = FALSE
    /\ on_main = FALSE
    /\ buttons = {}
    /\ cursorPos = 0
    /\ key = ""
    /\ outcome = ""
    /\ presses = 0

\* the plate's variables
plateVars == <<stack, selection>>

\* the places of the task main starts first, refresh_data(force_main=True):
\* its await, wait_for_network's sleep, and the await of the refresh_data
\* that wait_for_network calls
FirstRun == {"refresh_main", "wait_for_network_main", "refresh_ignore_main"}

\* the places where the task of main and update_loop awaits an update
Awaiting == {"refresh_main", "refresh_ignore_main", "refresh_data", "refresh_ignore"}

\* main: screen.draw_loading_screen(), then refresh_data(force_main=True)
\* starts and awaits
DrawLoadingScreen ==
    /\ ui = "screen"
    /\ updater = "main"
    /\ SetScreen(draw_loading_screen(Screen))
    /\ updater' = "refresh_main"
    /\ key' = ""
    /\ outcome' = ""
    /\ UNCHANGED <<ui, pc, stale, cursorPos, presses, plateVars, otherVars>>

\* update_loop: the update time has come, refresh_data() starts and awaits
BeginUpdate ==
    /\ ui = "screen"
    /\ updater = "update_loop"
    /\ updater' = "refresh_data"
    /\ UNCHANGED <<ui, pc, stale, ident, old_ident, aliased, metar, session, inverted,
                   on_main, buttons, layout, cursorPos, key, outcome, presses,
                   plateVars, otherVars>>

\* wait_for_network in that task after its sleep: on_main = True, and
\* refresh_data(ignore_updated=True) starts and awaits
WaitForNetwork ==
    /\ ui = "screen"
    /\ updater \in {"wait_for_network", "wait_for_network_main"}
    /\ SetScreen([Screen EXCEPT !.on_main = TRUE])
    /\ updater' = IF updater \in FirstRun THEN "refresh_ignore_main" ELSE "refresh_ignore"
    /\ UNCHANGED <<ui, pc, stale, cursorPos, key, outcome, presses, plateVars, otherVars>>

\* a refresh_data call of that task is answered: main's with
\* force_main, update_loop's, or wait_for_network's with ignore_updated.
\* On ConnectionError the task sleeps in wait_for_network; otherwise
\* update_loop sleeps, or main's first task has ended and aio.wait returns
AutoUpdate ==
    /\ ui = "screen"
    /\ updater \in Awaiting
    /\ \E r \in UpdateResults :
          /\ SetScreen(refresh_data(Screen, ~stale, r.answer, r.wxrmk,
                                    updater = "refresh_main",
                                    updater \in {"refresh_ignore", "refresh_ignore_main"}))
          /\ updater' = IF r.answer = "ConnectionError"
                        THEN (IF updater \in FirstRun THEN "wait_for_network_main"
                              ELSE "wait_for_network")
                        ELSE IF updater \in FirstRun THEN "run_with_touch_input"
                        ELSE "update_loop"
    /\ stale' = FALSE
    /\ key' = ""
    /\ outcome' = ""
    /\ UNCHANGED <<ui, pc, cursorPos, presses, plateVars, otherVars>>

\* main's first run_with_touch_input returns: aio.run cancels the input loop,
\* which ends a handler that awaits with CancelledError where it stands, and
\* the second run starts update_loop and a new input loop
RunUpdateLoop ==
    /\ ui = "screen"
    /\ updater = "run_with_touch_input"
    /\ updater' = "update_loop"
    /\ pc' = "ui"
    /\ key' = IF pc = "new_station" THEN "new_station" ELSE ""
    /\ outcome' = IF pc = "ui" THEN "" ELSE "CancelledError"
    /\ UNCHANGED <<ui, stale, ident, old_ident, aliased, metar, session, inverted,
                   on_main, buttons, layout, cursorPos, presses, plateVars, otherVars>>

\* the reload button of error_connection is touched: refresh_data() starts
\* in the input loop and awaits; no touch is read until it returns
Reload ==
    /\ ui = "screen"
    /\ pc = "ui"
    /\ "refresh_data" \in buttons
    /\ pc' = "refresh_data"
    /\ key' = ""
    /\ outcome' = ""
    /\ UNCHANGED <<ui, updater, stale, ident, old_ident, aliased, metar, session, inverted,
                   on_main, buttons, layout, cursorPos, presses, plateVars, otherVars>>

\* wait_for_network in the input loop after its sleep
ReloadWait ==
    /\ ui = "screen"
    /\ pc = "wait_for_network"
    /\ SetScreen([Screen EXCEPT !.on_main = TRUE])
    /\ pc' = "refresh_ignore"
    /\ UNCHANGED <<ui, updater, stale, cursorPos, key, outcome, presses, plateVars, otherVars>>

\* a refresh_data call of the input loop is answered: the reload button's,
\* or wait_for_network's with ignore_updated; on ConnectionError the input
\* loop sleeps in wait_for_network
Reloaded ==
    /\ ui = "screen"
    /\ pc \in {"refresh_data", "refresh_ignore"}
    /\ \E r \in UpdateResults :
          /\ SetScreen(refresh_data(Screen, TRUE, r.answer, r.wxrmk, FALSE,
                                    pc = "refresh_ignore"))
          /\ pc' = IF r.answer = "ConnectionError" THEN "wait_for_network" ELSE "ui"
    /\ key' = ""
    /\ outcome' = ""
    /\ UNCHANGED <<ui, updater, stale, cursorPos, presses, plateVars, otherVars>>

\* the button of the quit screen or of the no-network screen is touched:
\* quit() raises SystemExit in the input loop and the program ends
Quit ==
    /\ ui = "screen"
    /\ pc = "ui"
    /\ "quit" \in buttons
    /\ pc' = "ended"
    /\ updater' = "ended"
    /\ key' = ""
    /\ outcome' = ""
    /\ UNCHANGED <<ui, stale, ident, old_ident, aliased, metar, session, inverted,
                   on_main, buttons, layout, cursorPos, presses, plateVars, otherVars>>

\* a button whose handler does not await is touched
Draw(handler, scr) ==
    /\ ui = "screen"
    /\ pc = "ui"
    /\ handler \in buttons
    /\ SetScreen(scr)
    /\ key' = IF handler = "cancel_station" THEN handler ELSE ""
    /\ outcome' = ""
    /\ UNCHANGED <<ui, pc, updater, stale, cursorPos, presses, plateVars, otherVars>>

DrawMain == Draw("draw_main", draw_main(Screen))

DrawRmk == Draw("draw_rmk", draw_rmk(Screen))

DrawOptionsBar == Draw("draw_options_bar", draw_options_bar(Screen))

DrawQuitScreen == Draw("draw_quit_screen", draw_quit_screen(Screen))

DrawInfoScreen == Draw("draw_info_screen", draw_info_screen(Screen))

DrawSelectionScreen == Draw("draw_selection_screen", draw_selection_screen(Screen))

InvertWb == Draw("invert_wb", invert_wb(Screen))

CancelStation == Draw("cancel_station", cancel_station(Screen))

\* a triangle of column pos is touched: the up triangle is
\* __incr_ident(col, down=True); old_ident follows when it is the same list
IncrIdent ==
    /\ ui = "screen"
    /\ pc = "ui"
    /\ "incr_ident" \in buttons
    /\ presses < MaxTouches
    /\ \E pos \in Columns, down \in BOOLEAN :
          /\ ident' = incr_ident(ident, pos, down)
          /\ old_ident' = IF aliased THEN ident' ELSE old_ident
          /\ cursorPos' = pos
          /\ key' = IF down THEN "UP" ELSE "DOWN"
    /\ presses' = presses + 1
    /\ outcome' = ""
    /\ UNCHANGED <<ui, pc, updater, stale, aliased, metar, session, inverted, on_main,
                   buttons, layout, plateVars, otherVars>>

\* the confirm button: verify_station; for a station that reports,
\* new_station draws the loading screen and awaits the download
VerifyStation ==
    /\ ui = "screen"
    /\ pc = "ui"
    /\ "verify_station" \in buttons
    /\ \E answer \in {"BadStation", "sends_no_reports", "sends_reports"} :
          /\ SetScreen(verify_station(Screen, answer))
          /\ pc' = IF answer = "sends_reports" THEN "new_station" ELSE "ui"
          /\ outcome' = answer
    /\ key' = "verify_station"
    /\ UNCHANGED <<ui, updater, stale, cursorPos, presses, plateVars, otherVars>>

\* the download of the new station is answered: new_station goes on; a new
\* self.metar is not the Metar an update of the other task is awaiting
NewStation ==
    /\ ui = "screen"
    /\ pc = "new_station"
    /\ \E r \in UpdateResults :
          /\ SetScreen(new_station(Screen, r.answer, r.wxrmk))
          /\ stale' = (stale \/ (r.answer = "ok" /\ updater \in Awaiting))
          /\ outcome' = r.answer
    /\ pc' = "ui"
    /\ key' = "new_station"
    /\ UNCHANGED <<ui, updater, cursorPos, presses, plateVars, otherVars>>

\* what the plate's steps leave alone
plateOther == <<ui, pc, updater, stale, old_ident, aliased, inverted, on_main, buttons,
                layout, otherVars>>

\* the program ends: main returns 1, or an exception nothing catches
Ends(how) ==
    /\ stack' = <<>>
    /\ outcome' = how

\* main calls lcd_main: create_display_data reads self.metar.data
LcdMain(metar_) ==
    IF metar_.data THEN stack' = <<"lcd_main">> /\ outcome' = ""
    ELSE Ends("AttributeError")

\* main calls update_metar and metar.update() answers.  BadStation opens the
\* selection through lcd_bad_station; an exception of the bare except makes
\* main return 1; otherwise update_metar returns True, after lcd_timeout on
\* ConnectionError, and main calls lcd_main
UpdateMetar ==
    /\ ui = "plate"
    /\ stack = <<"update_metar">>
    /\ \E answer \in PlateAnswers :
          /\ metar' = IF answer = "ok" THEN [metar EXCEPT !.data = TRUE] ELSE metar
          /\ CASE answer = "BadStation" ->
                    /\ stack' = <<"update_metar", "lcd_select">>
                    /\ cursorPos' = 0
                    /\ outcome' = ""
               [] answer = "Exception" ->
                    /\ Ends("return 1")
                    /\ cursorPos' = cursorPos
               [] OTHER ->
                    /\ LcdMain(metar')
                    /\ cursorPos' = cursorPos
    /\ key' = "update_metar"
    /\ UNCHANGED <<ident, session, selection, presses, plateOther>>

\* lcd_main: the update interval has passed, main calls update_metar
LcdMainReturns ==
    /\ ui = "plate"
    /\ stack = <<"lcd_main">>
    /\ stack' = <<"update_metar">>
    /\ key' = "lcd_main"
    /\ outcome' = ""
    /\ UNCHANGED <<ident, metar, session, selection, cursorPos, presses, plateOther>>

\* __scroll_button_check on the main display: SELECT opens the selection,
\* LEFT with RIGHT the shutdown question
ScrollButtonCheck ==
    /\ ui = "plate"
    /\ stack = <<"lcd_main">>
    /\ \E held \in SUBSET SelectKeys :
          /\ scroll_button_check(held) # ""
          /\ stack' = Append(stack, scroll_button_check(held))
          /\ key' = scroll_button_check(held)
    /\ cursorPos' = 0
    /\ selection' = FALSE
    /\ outcome' = ""
    /\ UNCHANGED <<ident, metar, session, presses, plateOther>>

\* UP, DOWN, LEFT or RIGHT in __handle_select's loop
PressKey ==
    /\ ui = "plate"
    /\ stack # <<>>
    /\ stack[Len(stack)] = "lcd_select"
    /\ presses < MaxPresses
    /\ \E held \in SUBSET SelectKeys :
          /\ select_branch(held) \in {"UP", "DOWN", "LEFT", "RIGHT"}
          /\ ident' = handle_select(ident, cursorPos, select_branch(held)).ident
          /\ cursorPos' = handle_select(ident, cursorPos, select_branch(held)).cursorPos
          /\ key' = select_branch(held)
    /\ presses' = presses + 1
    /\ outcome' = ""
    /\ UNCHANGED <<metar, session, stack, selection, plateOther>>

\* LEFT with RIGHT in __handle_select's loop: lcd_shutdown asks
PressShutdown ==
    /\ ui = "plate"
    /\ stack # <<>>
    /\ stack[Len(stack)] = "lcd_select"
    /\ \E held \in SUBSET SelectKeys : select_branch(held) = "lcd_shutdown"
    /\ stack' = Append(stack, "lcd_shutdown")
    /\ selection' = FALSE
    /\ key' = "lcd_shutdown"
    /\ outcome' = ""
    /\ UNCHANGED <<ident, metar, session, cursorPos, presses, plateOther>>

\* SELECT ends __handle_select's loop; lcd_select saves the session and
\* makes a new Metar, which raises BadStation for a station avwx does not
\* know.  Then lcd_select returns: inside update_metar, update_metar
\* returns True and main calls lcd_main; on the main display lcd_main
\* returns and main calls update_metar
PressSelect ==
    /\ ui = "plate"
    /\ stack # <<>>
    /\ stack[Len(stack)] = "lcd_select"
    /\ \E held \in SUBSET SelectKeys : select_branch(held) = "SELECT"
    /\ session' = [station |-> ident_to_station(ident).station]
    /\ \E known \in BOOLEAN :
          IF ~known THEN metar' = metar /\ Ends("BadStation")
          ELSE /\ metar' = [metar EXCEPT !.station = ident_to_station(ident).station,
                                         !.data = FALSE]
               /\ IF stack[1] = "update_metar" THEN LcdMain(metar')
                  ELSE stack' = <<"update_metar">> /\ outcome' = ""
    /\ key' = "SELECT"
    /\ UNCHANGED <<ident, selection, cursorPos, presses, plateOther>>

\* one pass of lcd_shutdown's loop.  LEFT moves to Y, RIGHT back to N.
\* SELECT on Y ends the program; on N lcd_shutdown returns: to the main
\* display, where lcd_main returns and main calls update_metar, or to
\* __handle_select, which calls lcd_select again and returns when that has
\* returned: the selection starts over at cursorPos 0, and the calls of
\* lcd_select that are open save the same session and make the same Metar
\* one after the other
LcdShutdown ==
    /\ ui = "plate"
    /\ stack # <<>>
    /\ stack[Len(stack)] = "lcd_shutdown"
    /\ \E held \in SUBSET SelectKeys :
          LET branch == lcd_shutdown(held, selection)
          IN  /\ branch # ""
              /\ key' = branch
              /\ CASE branch = "Y" ->
                        /\ selection' = TRUE
                        /\ UNCHANGED <<stack, cursorPos, outcome>>
                   [] branch = "N" ->
                        /\ selection' = FALSE
                        /\ UNCHANGED <<stack, cursorPos, outcome>>
                   [] selection ->
                        /\ Ends("SystemExit")
                        /\ UNCHANGED <<selection, cursorPos>>
                   [] Len(stack) = 2 ->
                        /\ stack' = <<"update_metar">>
                        /\ outcome' = ""
                        /\ UNCHANGED <<selection, cursorPos>>
                   [] OTHER ->
                        /\ stack' = SubSeq(stack, 1, Len(stack) - 1)
                        /\ cursorPos' = 0
                        /\ outcome' = ""
                        /\ UNCHANGED selection
    /\ UNCHANGED <<ident, metar, session, presses, plateOther>>

NextUI ==
    \/ DrawLoadingScreen
    \/ BeginUpdate
    \/ WaitForNetwork
    \/ AutoUpdate
    \/ RunUpdateLoop
    \/ Reload
    \/ ReloadWait
    \/ Reloaded
    \/ Quit
    \/ DrawMain
    \/ DrawRmk
    \/ DrawOptionsBar
    \/ DrawQuitScreen
    \/ DrawInfoScreen
    \/ DrawSelectionScreen
    \/ InvertWb
    \/ CancelStation
    \/ IncrIdent
    \/ VerifyStation
    \/ NewStation
    \/ UpdateMetar
    \/ LcdMainReturns
    \/ ScrollButtonCheck
    \/ PressKey
    \/ PressShutdown
    \/ PressSelect
    \/ LcdShutdown

SpecUI == InitUI /\ [][NextUI]_vars

\* ------------------------------------------------------------------------
\* Properties
\* ------------------------------------------------------------------------

\* parseMETAR has returned a record (the caller may have classified it since)
Returned == pc \in {"returned", "getFlightRules", "classified"}
            \/ (pc = "raised" /\ DOMAIN retWX = Keys)

\* the first whitespace-delimited token of a text
FirstToken(t) == Split(LStrip(t), " ")[1]

\* no table of the variant selector holds the text's prefix
UnknownPrefix(t) ==
    /\ ~InList(SliceTo(t, 1), RegionsUsingUSParser)
    /\ ~InList(SliceTo(t, 1), RegionsUsingInternationalParser)
    /\ ~InList(SliceTo(t, 2), MStationsUsingUSParser)
    /\ ~InList(SliceTo(t, 2), MStationsUsingInternationalParser)

\* no stage of a pipeline has run
NothingRan == /\ pc \in {"parseMETAR", "None"}
              /\ variant = "" /\ wxData = <<>> /\ retWX = <<>> /\ exc = ""

\* C1: the report "KTOB 252234Z AUTO 29019G29KT 10SM OVC010 01/M03 A3002 RMK AO2"
\* decodes without failure to station KTOB, time 252234Z, wind 290 at 19
\* gusting 29, visibility 10, altimeter 3002, temperature "01" (shown as 1),
\* dewpoint "M03" (shown as -3), the single layer OVC at height 010 (10), and
\* getFlightRules on its visibility and ceiling returns 1 (MVFR).
C1_ScenarioUS ==
    txt = ScenarioUS =>
        /\ pc \notin {"None", "raised"}
        /\ pc = "classified" =>
            /\ retWX["Station"] = "KTOB"
            /\ retWX["Time"] = "252234Z"
            /\ retWX["Wind-Direction"] = "290"
            /\ retWX["Wind-Speed"] = "19"
            /\ retWX["Wind-Gust"] = "29"
            /\ retWX["Visibility"] = "10"
            /\ retWX["Altimeter"] = "3002"
            /\ retWX["Temperature"] = "01"
            /\ displayValue(retWX["Temperature"]) = [value |-> 1, exc |-> ""]
            /\ retWX["Dewpoint"] = "M03"
            /\ displayValue(retWX["Dewpoint"]) = [value |-> -3, exc |-> ""]
            /\ retWX["Cloud-List"] = << <<"OVC", "010">> >>
            /\ frVis = "10"
            /\ frCeiling = <<"OVC", "010">>
            /\ CldValue(frCeiling) = 10
            /\ flightRules = 1

C1_Witness == txt = ScenarioUS /\ pc = "classified" /\ flightRules = 1

\* the category the decision tree of the specification gives n/d statute
\* miles and a ceiling of c hundred feet
ExpectedRules(n, d, c) ==
    IF n < 1 * d \/ c < 5 THEN 3
    ELSE IF n < 3 * d \/ c < 10 THEN 2
    ELSE IF n < 5 * d \/ c < 30 THEN 1
    ELSE 0

\* C2: for every numeric visibility n/d and ceiling c, getFlightRules returns
\* LIFR iff v<1 or c<5, else IFR iff v<3 or c<10, else MVFR iff v<5 or c<30,
\* else VFR, all comparisons strict: (5,30) VFR, (3,10) MVFR, (1,5) IFR,
\* (10,10) MVFR and (3/4,8) LIFR.
C2_DecisionTree ==
    pc # "getFlightRules" =>
        /\ \A n \in 0..MaxVis, d \in 1..MaxDen :
              frVis = FmtVis(n, d) =>
                 /\ frCeiling = <<>> => (pc = "classified" /\ flightRules = ExpectedRules(n, d, 99))
                 /\ \A c \in 0..MaxCeil :
                       (Len(frCeiling) = 2 /\ frCeiling[2] = FmtHeight(c)) =>
                          (pc = "classified" /\ flightRules = ExpectedRules(n, d, c))
        /\ (frVis = "5" /\ frCeiling = <<"BKN", "030">>) => flightRules = 0
        /\ (frVis = "3" /\ frCeiling = <<"BKN", "010">>) => flightRules = 1
        /\ (frVis = "1" /\ frCeiling = <<"BKN", "005">>) => flightRules = 2
        /\ (frVis = "10" /\ frCeiling = <<"OVC", "010">>) => flightRules = 1
        /\ (frVis = "3/4" /\ frCeiling = <<"OVC", "008">>) => flightRules = 3

C2_Witness ==
    /\ pc = "classified"
    /\ frVis = "3/4" /\ frCeiling = <<"OVC", "008">>
    /\ flightRules = 3

\* C3: with an empty visibility getFlightRules returns 2 (IFR) whatever the
\* ceiling argument is: none, below 500 ft, above 3000 ft, or malformed.
C3_NoVisibilityIsIFR ==
    (frVis = "" /\ pc # "getFlightRules") => (pc = "classified" /\ flightRules = 2)

C3_Witness ==
    /\ frVis = "" /\ frCeiling = <<"OVC", "003">>
    /\ pc = "classified" /\ flightRules = 2

\* C4: a report whose first two letters are in MStationsUsingInternationalParser
\* is decoded by the International pipeline, and one whose first two letters
\* are in MStationsUsingUSParser by the US pipeline.
C4_MStationsBySubTable ==
    (pc # "parseMETAR" /\ Len(txt) >= 2) =>
        /\ InList(SliceTo(txt, 2), MStationsUsingInternationalParser) => variant = "International"
        /\ InList(SliceTo(txt, 2), MStationsUsingUSParser) => variant = "US"

\* C5: the Station of every decoded record is the first whitespace-delimited
\* token of the raw report.
C5_StationIsFirstToken ==
    "Station" \in DOMAIN retWX => retWX["Station"] = FirstToken(txt)

\* C6: for a text of at least 2 characters with a recognized prefix,
\* parseMETAR never raises: it returns a record with every key.
C6_DecodeNeverRaises ==
    (Len(txt) >= 2 /\ ~UnknownPrefix(txt)) =>
        /\ pc = "raised" => DOMAIN retWX = Keys
        /\ Returned => DOMAIN retWX = Keys

\* C7: a text whose prefix is in none of the four tables makes parseMETAR
\* return None: no pipeline is chosen and no stage runs.
C7_UnknownPrefixReturnsNone ==
    (Len(txt) >= 2 /\ UnknownPrefix(txt)) => NothingRan

C7_Witness == Len(txt) >= 2 /\ UnknownPrefix(txt) /\ pc = "None"

\* the token after the first is no time group, or there is none
NoTimeGroup(t) ==
    LET toks == Split(Strip(t), " ")
    IN  Len(toks) < 2 \/ ~IsTime(toks[2])

\* C8 as claimed: a report without both a station and a valid time group
\* (a single token, or a station followed by no valid time token) yields no
\* record.
C8_NoTimeGroupFails == NoTimeGroup(txt) => ~Returned

\* C8 as amended: parseMETAR fails fast, returning None before any stage
\* runs, for every text of fewer than 2 characters, and returns None only for
\* such a text or an unrecognized prefix; a missing time group is no failure:
\* the Time of a record is empty or a valid time group.
C8_ShortTextFailsFast ==
    /\ Len(txt) < 2 => NothingRan
    /\ pc = "None" => (Len(txt) < 2 \/ UnknownPrefix(txt))
    /\ "Time" \in DOMAIN retWX => (retWX["Time"] = "" \/ IsTime(retWX["Time"]))

C8_Witness == Len(txt) = 1 /\ pc = "None"

\* a layer with a numeric height
HasHeight(layer) == Len(layer) > 1 /\ IsDigit(layer[2])

\* C9: the layers of Cloud-List that have numeric heights are in ascending
\* order of height.
C9_CloudsAscending ==
    "Cloud-List" \in DOMAIN retWX =>
        LET cl == retWX["Cloud-List"]
        IN  \A i \in 1..Len(cl), j \in 1..Len(cl) :
               (i < j /\ HasHeight(cl[i]) /\ HasHeight(cl[j])) =>
                  ToInt(cl[i][2]) <= ToInt(cl[j][2])

\* C10: the report "EGLL 010200Z 09010KT CAVOK 15/10 Q1013" decodes to
\* visibility 9999 (6.2 statute miles), no clouds, and flight rules 0 (VFR);
\* and whenever the International pipeline finds CAVOK at the head after the
\* wind, it sets Visibility 9999 and Cloud-List empty, consumes that token and
\* puts the tokens left in Other-List.
C10_Cavok ==
    /\ [](txt = ScenarioInternational =>
            /\ pc \notin {"None", "raised"}
            /\ pc = "classified" =>
                /\ retWX["Visibility"] = "9999"
                /\ retWX["Cloud-List"] = <<>>
                /\ frVis = "9999" /\ frCeiling = <<>>
                /\ MicroMiles(ToInt(frVis)) \in 6200000..6299999
                /\ flightRules = 0)
    /\ [][(/\ pc = "getVisibility"
           /\ variant = "International"
           /\ wxData # <<>>
           /\ wxData[1] = "CAVOK")
          => (/\ pc' = "returned"
              /\ retWX'["Visibility"] = "9999"
              /\ retWX'["Cloud-List"] = <<>>
              /\ wxData' = Tail(wxData)
              /\ retWX'["Other-List"] = Tail(wxData))]_vars

C10_Witness ==
    /\ txt = ScenarioInternational /\ pc = "classified"
    /\ retWX["Visibility"] = "9999" /\ flightRules = 0
\* C11: the station codec round-trips: a station of four symbols of A-Z,
\* 0-9 encodes to four indices in 0..35 and decodes back to itself, and a
\* list of four indices in 0..35 decodes and encodes back to itself
C11_CodecRoundTrip ==
    /\ (/\ codecIn.kind = "station"
        /\ Len(codecIn.station) = 4
        /\ \A k \in 0..3 : \E n \in 1..36 : IDENT_CHARS[n] = Ch(codecIn.station, k)
        /\ pc \in {"ident_to_station", "codec_done"})
       => /\ Len(idents) = 4
          /\ \A k \in 1..4 : idents[k] \in 0..35
          /\ pc = "codec_done" => station = codecIn.station
    /\ (/\ codecIn.kind = "idents"
        /\ Len(codecIn.idents) = 4
        /\ \A k \in 1..4 : codecIn.idents[k] \in 0..35)
       => /\ pc # "raised"
          /\ pc = "codec_done" => idents = codecIn.idents

\* both directions of the round trip have completed, one through a digit
C11_Witness ==
    /\ pc = "codec_done"
    /\ \/ codecIn.kind = "station" /\ station = "K9A0" /\ idents = <<10, 35, 0, 26>>
       \/ codecIn.kind = "idents" /\ idents = <<0, 26, 25, 35>> /\ station = "A0Z9"

\* the text the claim gives for a prefix and for a list of codes
PrefixText(p) == IF p = "+" THEN "Heavy " ELSE IF p = "-" THEN "Light " ELSE ""

RECURSIVE CodesText(_)
CodesText(cs) ==
    IF cs = <<>> THEN ""
    ELSE (IF cs[1] \in DOMAIN wxReplacements THEN wxReplacements[cs[1]] \o " "
          ELSE cs[1]) \o CodesText(Tail(cs))

\* C12: translateWX turns a leading '+' into "Heavy " and a leading '-' into
\* "Light ", then gives for each two-character code its table text and one
\* space, or the two characters as they are when the table lacks the code;
\* "+TSRA" is "Heavy Thunderstorm Rain " and "-SHRA" is "Light Showers Rain "
C12_TranslateWX ==
    pc \in {"translated", "raised"} =>
        /\ \A p \in WxPrefixes : \A cs \in CodeLists :
              (Len(cs) \in {1, 2, 3} /\ wx = p \o JoinCodes(cs))
                  => pc = "translated" /\ wxString = PrefixText(p) \o CodesText(cs)
        /\ wx = "+TSRA" => wxString = "Heavy Thunderstorm Rain "
        /\ wx = "-SHRA" => wxString = "Light Showers Rain "

\* a heavy code with a table hit and a miss has been translated
C12_Witness ==
    pc = "translated" /\ wx = "+TSR0RA" /\ wxString = "Heavy Thunderstorm R0Rain "

\* the token without its intensity prefix
WxStripped(t) == IF t # "" /\ Ch(t, 0) \in {"+", "-"} THEN SliceFrom(t, 1) ELSE t

\* C13: a token whose length without the intensity prefix is not 2, 4 or 6
\* comes back from translateWX identical to the argument, prefix included
C13_OddTokenUnmodified ==
    (pc # "translateWX" /\ Len(WxStripped(wx)) \notin {2, 4, 6})
        => pc = "translated" /\ wxString = wx

\* a is b with some tokens taken out, the others in their order
RECURSIVE IsSubseq(_, _)
IsSubseq(a, b) ==
    IF a = <<>> THEN TRUE
    ELSE IF b = <<>> THEN FALSE
    ELSE IF a[1] = b[1] THEN IsSubseq(Tail(a), Tail(b))
    ELSE IsSubseq(a, Tail(b))

\* the stages that take tokens of the sanitized body
ExtractorStages == {"getAltimeter", "getTempAndDewpoint", "getStationAndTime",
                    "getWindInfo", "getVisibility", "getClouds"}

ListKeys == {"Wind-Variable-Dir", "Cloud-List", "Other-List"}

\* the field k of the record r holds nothing
EmptyField(r, k) == IF k \in ListKeys THEN r[k] = <<>> ELSE r[k] = ""

\* the fields a stage has set
Claimed == (DOMAIN retWX' \ DOMAIN retWX) \ {"Other-List"}

\* a stage only takes tokens out of the list, it fills a field only from
\* tokens it takes out, and the tokens it takes out are not lost: a field
\* of the stage holds something (an empty token, which a doubled space
\* leaves in the list, has nothing to store)
ClaimStep ==
    pc \in ExtractorStages =>
        /\ IsSubseq(wxData', wxData)
        /\ (wxData' = wxData) => \A k \in Claimed : EmptyField(retWX', k)
        /\ (wxData' # wxData /\ ~InList("", wxData)) =>
              \E k \in Claimed : ~EmptyField(retWX', k)

\* C14: every token of the sanitized body is claimed by exactly one extractor
\* or stays for Other-List, and none is lost: a stage only takes tokens out
\* of the list and leaves the others in their order, it fills a field only
\* from tokens it takes out, so that no later stage can read them again, a
\* stage that takes tokens out stores something in a field of its own, and
\* Other-List is the list the last stage leaves
C14_TokensClaimedOnce ==
    /\ [][ClaimStep]_vars
    /\ []((Returned /\ pc # "raised") => retWX["Other-List"] = wxData)

\* the digits of s from index i up to the first character that is no digit
RECURSIVE DigitRun(_, _)
DigitRun(s, i) ==
    IF i < Len(s) /\ Slice(s, i, i + 1) \in Digits
    THEN Slice(s, i, i + 1) \o DigitRun(s, i + 1)
    ELSE ""

\* the parts of a wind token read left to right: three characters of
\* direction, the speed digits, 'G' and the gust digits, the unit
WindParts(h) ==
    LET speed == DigitRun(h, 3)
        gAt   == 3 + Len(speed)
        hasG  == Slice(h, gAt, gAt + 1) = "G"
        gust  == IF hasG THEN DigitRun(h, gAt + 1) ELSE ""
        uAt   == IF hasG THEN gAt + 1 + Len(gust) ELSE gAt
    IN  [direction |-> SliceTo(h, 3), speed |-> speed, hasG |-> hasG,
         gust |-> gust, unit |-> SliceFrom(h, uAt)]

\* a wind token in a shape the extractor recognizes: with a unit, the
\* five-digit shorthand, or the unsuffixed gust form of eight characters
\* or more
WindShape(h) ==
    LET w == WindParts(h)
    IN  /\ w.speed # ""
        /\ w.hasG => w.gust # ""
        /\ \/ w.unit \in {"KT", "KTS", "MPS"}
           \/ w.unit = "" /\ ~w.hasG /\ Len(h) = 5 /\ IsDigit(h)
           \/ w.unit = "" /\ w.hasG /\ Len(h) >= 8

\* the wind stage reads a head token of a recognized shape, and no detached
\* gust follows it
WindShapeStep ==
    /\ pc = "getWindInfo"
    /\ wxData # <<>>
    /\ WindShape(wxData[1])
    /\ ~(Len(wxData) > 1 /\ IsGust(wxData[2]))

\* C15: for a head token in a recognized wind shape the wind stage stores
\* the first three characters as direction, all the digits after them as
\* speed and all the digits after 'G' as gust: no digit is dropped
C15_WindDigitsKept ==
    [][WindShapeStep =>
          /\ retWX'["Wind-Direction"] = WindParts(wxData[1]).direction
          /\ retWX'["Wind-Speed"] = WindParts(wxData[1]).speed
          /\ retWX'["Wind-Gust"] = WindParts(wxData[1]).gust]_vars

\* the parts of a slash-form wind token ddd/ss or ddd/ssGgg
SlashParts(h) ==
    LET speed == DigitRun(h, 4)
        gAt   == 4 + Len(speed)
        hasG  == Slice(h, gAt, gAt + 1) = "G"
        gust  == IF hasG THEN DigitRun(h, gAt + 1) ELSE ""
        end   == IF hasG THEN gAt + 1 + Len(gust) ELSE gAt
    IN  [direction |-> SliceTo(h, 3), speed |-> speed, hasG |-> hasG,
         gust |-> gust, rest |-> SliceFrom(h, end)]

SlashShape(h) ==
    /\ IsDigit(SliceTo(h, 3))
    /\ Slice(h, 3, 4) = "/"
    /\ SlashParts(h).speed # ""
    /\ SlashParts(h).hasG => SlashParts(h).gust # ""
    /\ SlashParts(h).rest = ""

\* the wind stage reads a head token in slash form, and no detached gust
\* follows it
SlashStep ==
    /\ pc = "getWindInfo"
    /\ wxData # <<>>
    /\ SlashShape(wxData[1])
    /\ ~(Len(wxData) > 1 /\ IsGust(wxData[2]))

\* C16: a head token in slash form ddd/ss is taken by the wind stage as a
\* wind group: it leaves the list, direction is ddd, speed is ss, and gust
\* is the digits after a following G
C16_SlashWindRecognized ==
    [][SlashStep =>
          /\ Len(wxData') < Len(wxData)
          /\ retWX'["Wind-Direction"] = SlashParts(wxData[1]).direction
          /\ retWX'["Wind-Speed"] = SlashParts(wxData[1]).speed
          /\ retWX'["Wind-Gust"] = SlashParts(wxData[1]).gust]_vars

\* C17: in every decoded record Wind-Direction and Wind-Speed are both
\* empty or both non-empty
C17_DirectionAndSpeedTogether ==
    "Wind-Speed" \in DOMAIN retWX =>
        (retWX["Wind-Direction"] = "" <=> retWX["Wind-Speed"] = "")

\* the parts of a fraction token N/DSM
FractionParts(t) ==
    LET num == DigitRun(t, 0)
        den == DigitRun(t, Len(num) + 1)
    IN  [num |-> num, den |-> den,
         slash |-> Slice(t, Len(num), Len(num) + 1),
         rest |-> SliceFrom(t, Len(num) + 1 + Len(den))]

FractionShape(t) ==
    /\ FractionParts(t).num # ""
    /\ FractionParts(t).slash = "/"
    /\ FractionParts(t).den # ""
    /\ FractionParts(t).rest = "SM"

\* the US visibility stage reads a whole number and a fraction
TwoTokenVisStep ==
    /\ pc = "getVisibility"
    /\ variant = "US"
    /\ Len(wxData) > 1
    /\ IsDigit(wxData[1]) /\ wxData[1] # "9999"
    /\ FractionShape(wxData[2])

\* C18: for the two tokens W and N/DSM the US visibility stage stores
\* (W*D+N)/D, for every N and D, and takes both tokens
C18_TwoTokenVisibility ==
    [][TwoTokenVisStep =>
          LET f == FractionParts(wxData[2])
          IN  /\ pc' = "getClouds"
              /\ wxData' = Tail(Tail(wxData))
              /\ retWX'["Visibility"] =
                     IntToStr(ToInt(wxData[1]) * ToInt(f.den) + ToInt(f.num))
                     \o "/" \o f.den]_vars

\* the report as the splitter scans it, and the markers the claims name
Scanned(t) == Replace(t, "?", " ")

ClaimedMarkers == <<"BECMG", "TEMPO", "RMK">>

NoClaimedMarker(t) == \A k \in 1..3 : Find(Scanned(t), ClaimedMarkers[k]) = -1

\* the marker of highest precedence that occurs in the report
TopMarker(t) ==
    ClaimedMarkers[CHOOSE k \in 1..3 :
        /\ Find(Scanned(t), ClaimedMarkers[k]) # -1
        /\ \A j \in 1..(k - 1) : Find(Scanned(t), ClaimedMarkers[j]) = -1]

\* C19: the splitter splits only at BECMG, TEMPO and RMK: a report holding
\* none of them is body as a whole, its tokens all kept, and Remarks is ""
C19_OnlyThreeMarkers ==
    (pc = "sanitize" /\ NoClaimedMarker(txt)) =>
        /\ retWX["Remarks"] = ""
        /\ wxData = Split(Strip(Scanned(txt)), " ")

\* C20: a report holding a marker is split at the first occurrence of the
\* marker of highest precedence: Remarks is the text from the marker on,
\* without the keyword when the marker is RMK, and the body is exactly the
\* tokens before the marker
C20_SplitAtTopMarker ==
    (pc = "sanitize" /\ ~NoClaimedMarker(txt)) =>
        LET m  == TopMarker(txt)
            at == Find(Scanned(txt), m)
        IN  /\ wxData = Split(Strip(SliceTo(Scanned(txt), at)), " ")
            /\ LStrip(retWX["Remarks"]) =
                   LStrip(SliceFrom(Scanned(txt), IF m = "RMK" THEN at + 3 ELSE at))

\* the markers __getRemarks searches for, in its order
SearchedMarkers == <<"BECMG", "TEMPO", "TEMP", "NOSIG", "RMK">>

NoSearchedMarker(t) == \A k \in 1..5 : Find(Scanned(t), SearchedMarkers[k]) = -1

\* the first of the five that occurs in the report, in the order searched
TopSearched(t) ==
    SearchedMarkers[CHOOSE k \in 1..5 :
        /\ Find(Scanned(t), SearchedMarkers[k]) # -1
        /\ \A j \in 1..(k - 1) : Find(Scanned(t), SearchedMarkers[j]) = -1]

\* C19, as the code has it: the splitter splits at BECMG, TEMPO, TEMP,
\* NOSIG and RMK, searched as substrings in that order; a report holding
\* none of the five is body as a whole and Remarks is ""; a report holding
\* one, NOSIG or a token containing TEMP among them, has as Remarks its
\* text from the first occurrence of the first of the five it holds on,
\* for RMK from the fourth character after it on
C19_FiveMarkers ==
    /\ (pc = "sanitize" /\ NoSearchedMarker(txt)) =>
           /\ retWX["Remarks"] = ""
           /\ wxData = Split(Strip(Scanned(txt)), " ")
    /\ (pc = "sanitize" /\ ~NoSearchedMarker(txt)) =>
           LET m  == TopSearched(txt)
               at == Find(Scanned(txt), m)
           IN  /\ retWX["Remarks"] =
                      SliceFrom(Scanned(txt), IF m = "RMK" THEN at + 4 ELSE at)
               /\ m \in {"BECMG", "TEMPO", "TEMP", "NOSIG"} =>
                      SliceTo(retWX["Remarks"], Len(m)) = m

\* a report whose only marker is the TEMP inside a token has been split there
C19_Witness ==
    /\ pc = "sanitize"
    /\ txt = "EGLL ABTEMPS"
    /\ retWX["Remarks"] = "TEMPS"

\* a runway visual range token as the claim gives its shape: R, two
\* digits of runway, an optional letter, a slash, digits
RvrShape(s) ==
    /\ Slice(s, 0, 1) = "R"
    /\ IsDigit(Slice(s, 1, 3))
    /\ \/ Slice(s, 3, 4) = "/" /\ IsDigit(SliceFrom(s, 4))
       \/ /\ Find(UpperCase, Slice(s, 3, 4)) >= 0 /\ Len(s) > 3
          /\ Slice(s, 4, 5) = "/"
          /\ IsDigit(SliceFrom(s, 5))

\* the tokens of wx that have the runway visual range shape
RvrTokens(tokens) ==
    {tokens[k] : k \in {j \in 1..Len(tokens) : RvrShape(tokens[j])}}

\* the sanitizer stage runs
SanitizeStep == pc = "sanitize" /\ pc' # "sanitize"

\* C21: every token of runway visual range shape leaves the token list and
\* is returned in Runway-Visibility, also when the body holds several
C21_EveryRvrReturned ==
    [][SanitizeStep =>
          \A t \in RvrTokens(wxData) :
              /\ ~InList(t, wxData')
              /\ Find(retWX'["Runway-Visibility"], t) # -1]_vars

\* the tokens at k and k+1 of a list are the halves of a split pair
PairAt(tokens, k) ==
    /\ k >= 1 /\ k < Len(tokens)
    /\ \/ tokens[k + 1] = "SM" /\ IsDigit(tokens[k])
       \/ tokens[k + 1] = "KT" /\ IsDigit(SliceTo(tokens[k], 5))
       \/ IsDigit(tokens[k + 1]) /\ InList(tokens[k], cloudList)

\* the token at k is not noise, not a runway visual range, not recent
\* weather and not half of a split pair
PlainAt(tokens, k) ==
    /\ ~InList(tokens[k], NoiseTokens)
    /\ ~IsRunwayVis(tokens[k])
    /\ ~IsRecentWx(tokens[k])
    /\ ~PairAt(tokens, k - 1)
    /\ ~PairAt(tokens, k)

\* the plain tokens of a list from index k on, in their order
RECURSIVE PlainFrom(_, _)
PlainFrom(tokens, k) ==
    IF k > Len(tokens) THEN <<>>
    ELSE IF PlainAt(tokens, k) THEN <<tokens[k]>> \o PlainFrom(tokens, k + 1)
    ELSE PlainFrom(tokens, k + 1)

\* C22: the sanitizer never raises, whatever the token list, and every
\* token that is not noise, not a runway visual range or recent-weather
\* token and not part of a split pair is in its output, unchanged and in
\* its original relative order
C22_SanitizeTotal ==
    [][pc = "sanitize" =>
          /\ pc' # "raised"
          /\ IsSubseq(PlainFrom(wxData, 1), wxData')]_vars

\* a recent-weather token as the claim gives its shape: RE and two or four
\* letters
ReShape(s) ==
    /\ Len(s) \in {4, 6}
    /\ SliceTo(s, 2) = "RE"
    /\ \A k \in 2..(Len(s) - 1) : Find(UpperCase, Slice(s, k, k + 1)) >= 0

\* C23: after the sanitizer the token list holds no AUTO, COR, NSC, CLR,
\* SKC, NCD, $, KT or M and no recent-weather token
C23_NoNoiseLeft ==
    pc = "getAltimeter" =>
        \A k \in 1..Len(wxData) :
            /\ ~InList(wxData[k], NoiseTokens)
            /\ ~ReShape(wxData[k])

\* a list with noise in front and recent weather at the end has been
\* sanitized
C23_Witness ==
    /\ pc = "getAltimeter"
    /\ txt = "AUTO KTOB RETSRA"
    /\ wxData = <<"KTOB">>

\* the halves of a split pair as the claim lists them
ClaimedPair(a, b) ==
    \/ IsDigit(a) /\ b = "SM"
    \/ Len(a) = 5 /\ IsDigit(a) /\ b = "KT"
    \/ InList(a, cloudList) /\ IsDigit(b)

\* the sanitized list as the claims give it: a split pair becomes one token
\* at the place of its first half, noise, runway visual ranges and recent
\* weather are dropped, every other token stays
RECURSIVE MergedPairs(_)
MergedPairs(tokens) ==
    IF tokens = <<>> THEN <<>>
    ELSE IF Len(tokens) > 1 /\ ClaimedPair(tokens[1], tokens[2])
    THEN <<tokens[1] \o tokens[2]>> \o MergedPairs(Tail(Tail(tokens)))
    ELSE IF \/ InList(tokens[1], NoiseTokens)
            \/ IsRunwayVis(tokens[1])
            \/ IsRecentWx(tokens[1])
    THEN MergedPairs(Tail(tokens))
    ELSE <<tokens[1]>> \o MergedPairs(Tail(tokens))

\* the claim leaves no doubt about the list: no token is half of two pairs,
\* and a KT follows a five-digit token or a token that starts with no digit
Unambiguous(tokens) ==
    /\ \A k \in 1..(Len(tokens) - 2) :
          ~(ClaimedPair(tokens[k], tokens[k + 1]) /\ ClaimedPair(tokens[k + 1], tokens[k + 2]))
    /\ \A k \in 1..(Len(tokens) - 1) :
          tokens[k + 1] = "KT" =>
              \/ ClaimedPair(tokens[k], "KT")
              \/ ~IsDigit(SliceTo(tokens[k], 5))

\* C24: the sanitizer merges a split pair with its immediately preceding
\* token only: digits and SM, five digits and KT, a cloud type and digits
\* become one token at the place of the first half, and the token at
\* position 0 is never merged into the last token of the list
C24_MergeWithPrecedingOnly ==
    [][(pc = "sanitize" /\ Unambiguous(wxData)) =>
          wxData' = MergedPairs(wxData)]_vars

\* a time group as the claim gives its shape: seven characters, six
\* digits and Z
TimeShape(s) ==
    /\ Len(s) = 7
    /\ Slice(s, 6, 7) = "Z"
    /\ \A k \in 0..5 : Slice(s, k, k + 1) \in Digits

\* the station stage runs on a list that holds the station
StationStep == pc = "getStationAndTime" /\ wxData # <<>>

\* C25: after the station is taken the next head token becomes Time only
\* if it has seven characters, ends in Z and starts with six digits;
\* otherwise Time is empty and the token stays at the head of the list
C25_TimeOnlyIfTimeShape ==
    [][StationStep =>
          LET rest == Tail(wxData)
          IN  IF rest # <<>> /\ TimeShape(rest[1])
              THEN retWX'["Time"] = rest[1] /\ wxData' = Tail(rest)
              ELSE retWX'["Time"] = "" /\ wxData' = rest]_vars

\* a token one character short of a time group stayed for the later stages,
\* and this record's Time is empty
C25_Witness ==
    /\ pc = "classified"
    /\ txt = "KTOB 25223Z 09010KT"
    /\ retWX["Time"] = ""
    /\ retWX["Other-List"] = <<"25223Z", "09010KT">>

\* a layer that counts as a ceiling: BKN, OVC or VV with a numeric height
Qualifying(layer) ==
    /\ Len(layer) > 1
    /\ layer[1] \in {"BKN", "OVC", "VV"}
    /\ IsDigit(layer[2])

\* the places of the qualifying layers of a cloud list
QualifyingAt(clouds) == {i \in 1..Len(clouds) : Qualifying(clouds[i])}

\* C26: the ceiling handed to the classifier is the lowest layer among the
\* BKN, OVC and VV layers with a numeric height, FEW and SCT layers and
\* placeholder heights left out; with no such layer the classifier uses 99
C26_CeilingIsLowest ==
    (pc = "getFlightRules" /\ "Cloud-List" \in DOMAIN retWX) =>
        LET clouds == retWX["Cloud-List"]
        IN  IF QualifyingAt(clouds) = {}
            THEN frCeiling = <<>> /\ CldValue(frCeiling) = 99
            ELSE /\ Qualifying(frCeiling)
                 /\ \A i \in QualifyingAt(clouds) :
                       ToInt(frCeiling[2]) <= ToInt(clouds[i][2])

\* an altimeter token of a pipeline: the letter and four digits
AltimeterShape(t, letter) ==
    /\ Len(t) = 5
    /\ Slice(t, 0, 1) = letter
    /\ IsDigit(SliceFrom(t, 1))

\* the altimeter stage runs on a list that holds a token
AltimeterStep == pc = "getAltimeter" /\ wxData # <<>>

\* C27: the altimeter is taken from the tail only when the tail token is A
\* (US) or Q (International) and four digits, and is those four digits;
\* otherwise Altimeter is empty and the tail token stays in the list
C27_AltimeterOnlyIfShape ==
    [][AltimeterStep =>
          LET t == wxData[Len(wxData)]
          IN  /\ pc' # "raised"
              /\ IF AltimeterShape(t, IF variant = "US" THEN "A" ELSE "Q")
                 THEN /\ retWX'["Altimeter"] = SliceFrom(t, 1)
                      /\ wxData' = SubSeq(wxData, 1, Len(wxData) - 1)
                 ELSE /\ retWX'["Altimeter"] = ""
                      /\ wxData' = wxData]_vars

\* the ident of the station whose report self.metar holds
LoadedIdent == station_to_ident(metar.station)

\* C28: on the touchscreen, after any edits, confirmations and cancellations
\* old_ident is the ident of the station whose report is loaded, and right
\* after cancel_station ident is that station's ident too, also when the
\* ident was edited after an earlier cancel.
C28_OldIdentIsLoadedStation ==
    ui = "screen" =>
        /\ old_ident = LoadedIdent
        /\ (key = "cancel_station" => ident = LoadedIdent)

\* a selection press: a key of the plate or a triangle of the touchscreen
PressStep == presses' = presses + 1

\* the same position pressed the other way after this press
PressedBack(k) ==
    IF ui = "plate" THEN handle_select(ident', cursorPos', k).ident
    ELSE incr_ident(ident', cursorPos', k = "UP")

\* C29: after every UP, DOWN, LEFT or RIGHT press each ident index is within
\* 0..35 and the cursor within 0..3; UP steps the index under the cursor
\* down by one, from 0 to 35, DOWN steps it up by one, from 35 to 0, no
\* other index changes, LEFT and RIGHT change no index, and a DOWN after an
\* UP (an UP after a DOWN) at the same position gives the index back.
C29_SelectionStaysInRange ==
    [][PressStep =>
          LET c == cursorPos' + 1
          IN  /\ cursorPos' \in 0..3
              /\ \A k \in 1..4 : ident'[k] \in 0..35
              /\ \A k \in 1..4 : k # c => ident'[k] = ident[k]
              /\ key' \in {"LEFT", "RIGHT"} => ident' = ident
              /\ key' = "UP" =>
                    /\ ident'[c] = IF ident[c] = 0 THEN 35 ELSE ident[c] - 1
                    /\ PressedBack("DOWN") = ident
              /\ key' = "DOWN" =>
                    /\ ident'[c] = IF ident[c] = 35 THEN 0 ELSE ident[c] + 1
                    /\ PressedBack("UP") = ident]_vars

\* on the plate, RIGHT was pressed four times from the first position of
\* A9A9: the fourth press left the cursor at the last position
C29_Witness ==
    /\ ui = "plate"
    /\ presses = 4
    /\ key = "RIGHT"
    /\ cursorPos = 3
    /\ ident = <<0, 35, 0, 35>>
    /\ session.station = "A9A9"

\* new_station runs: to its await in the confirm button's step, and from
\* the answer on; it ends there too when the input loop is cancelled
LoadingStep == pc = "ui" /\ pc' = "new_station"
AnswerStep == pc = "new_station" /\ pc' # "new_station"

\* C30: when new_station's download fails (no current report, connection or
\* source error, invalid request, unknown error), and when new_station is
\* cancelled at its await, the loaded report, old_ident and the saved
\* session are unchanged; when the download succeeds all three are those of
\* the newly selected station.
C30_FailedLoadChangesNothing ==
    [][/\ LoadingStep => UNCHANGED <<metar, old_ident, session>>
       /\ AnswerStep =>
             /\ outcome' \in {"ok", "no_data", "CancelledError"} \cup UpdateErrors
             /\ outcome' # "ok" => UNCHANGED <<metar, old_ident, session>>
             /\ outcome' = "ok" =>
                   /\ metar'.station = ident_to_station(ident).station
                   /\ metar'.data
                   /\ old_ident' = ident
                   /\ session'.station = ident_to_station(ident).station
                   /\ ident' = ident]_vars

\* A9A9 is loaded, B9A9 was selected and its download timed out
C30_Witness ==
    /\ ui = "screen"
    /\ key = "new_station"
    /\ outcome = "TimeoutError"
    /\ ident = <<1, 35, 0, 35>>
    /\ old_ident = <<0, 35, 0, 35>>
    /\ metar.station = "A9A9"
    /\ metar.data
    /\ session = [station |-> "A9A9", inverted |-> TRUE]

====
